---------------------------- MODULE Spec2Model ----------------------------
(***************************************************************************)
(* Model of the ESP32 + LSM6DS3 firmware: the IMUProcessor (sampling,      *)
(* delta-time guard, gyro integration, reset) and the lock-protected       *)
(* telemetry channels (Transport / Emitter workers).                       *)
(*                                                                         *)
(* Representation notes.                                                   *)
(*  - uint32_t microsecond timestamps are pairs [hi, lo] of 16-bit halves  *)
(*    (TLC's integers are 32-bit signed); subtraction is modulo 2^32.      *)
(*  - float deltaTime is carried as the integer number of microseconds k   *)
(*    whose float value is k/1e6f.  For k <= 100000 the conversion         *)
(*    uint32 -> float is exact and the division is correctly rounded and   *)
(*    monotone, 100000/1e6f is the float 0.1f itself, so                   *)
(*    (deltaTime > 0.1f) <=> (k > 100000) and (deltaTime <= 0) <=> k = 0.  *)
(*  - the gyro integrator is modelled on rotations about one body axis     *)
(*    (x, y or z, fixed for a run): the quaternion                         *)
(*    (cos(t/2), sin(t/2)*axis) is carried as its angle t in micro-degrees *)
(*    modulo 720 degrees (q and -q are different quaternions), and the     *)
(*    product of two such quaternions adds their angles.  Angles are       *)
(*    micro-degrees: rate (deg/s) * deltaTime (us).                        *)
(***************************************************************************)
EXTENDS Integers, Sequences, FiniteSets, TLC

VARIABLES
  imuProcessor,   \* the IMUProcessor object's fields (a record)
  axis,           \* body axis the gyro rotates about in this run
  pstep,          \* sequential driver: number of processor operations so far
  lastOp,         \* ghost: last processor operation ("init", "update", "reset")
  prevOp,         \* ghost: the processor operation before the last one
  before,         \* ghost: imuProcessor before the last operation
  lastNow,        \* ghost: micros() read by the last update
  lastGyro,       \* ghost: raw gyro rate read by the last update
  deltaTimeUsed,  \* ghost: deltaTime handed to the integration step (us)
  anomalous       \* ghost: the guard rejected the interval of the last update
                  \* (.last) and of the update before it (.prev)

VARIABLES
  wrapKind,       \* conversion under test: "angle" (wrapAngle alone) or an axis
  wrapIn,         \* its input: an angle, or the integrator quaternion's angle
  wrapOut         \* the angles it returned (<<>> before it ran)

VARIABLES
  cmdPath,        \* inbound path of the content under test: "ble" or "serial"
  cmdIn,          \* the write payload / the received line (a sequence of characters)
  cmdCalls,       \* number of calls of resetGyroIntegration it caused
  cmdDone         \* the content was handled

VARIABLES
  feed,           \* bytes the serial peer has still to send
  linesFed,       \* number of lines the peer has started
  rxBytes,        \* bytes received and not yet read (Serial.available() of them)
  serialCmdBuffer,\* the static line buffer of transmit() / send()
  inTransmit,     \* the serial worker is inside transmit() / send()
  prevLen,        \* ghost: length of serialCmdBuffer before the last byte read (-1: none)
  lastByte,       \* ghost: the last byte read
  lineBytes,      \* ghost: the bytes read since the last terminator
  split           \* ghost: transmit() returned inside the line read last

wrapVars == <<wrapKind, wrapIn, wrapOut>>

cmdVars == <<cmdPath, cmdIn, cmdCalls, cmdDone>>

serVars == <<feed, linesFed, rxBytes, serialCmdBuffer, inTransmit, prevLen, lastByte,
            lineBytes, split>>

VARIABLES
  mpc,            \* main.cpp: position of the Arduino task in setup() / loop()
  imuStatus,      \* main.cpp: what imu.begin() returned (-1: not called yet)
  errorLines,     \* main.cpp: error lines printed by the failure loop (saturating)
  fusionInitialised, \* main.cpp: FusionAhrsInitialise .. FusionOffsetInitialise ran
  bleStarted,     \* main.cpp: initialiseBle() ran
  connectedCount, \* main.cpp: g_bleServer->getConnectedCount()
  mainCycles,     \* main.cpp: sampling cycles begun by loop()
  jsonRecords,    \* main.cpp: records printed by printSensorJson
  blePackets      \* main.cpp: records sent by sendBLEPacket

mainVars == <<mpc, imuStatus, errorLines, fusionInitialised, bleStarted, connectedCount,
              mainCycles, jsonRecords, blePackets>>

VARIABLES
  cell,           \* one channel taken alone: its active, dirty, data, dataLock and
                  \* what it transmitted
  queue,          \* the depth-1 queue fed the same calls: its content (<<>> or <<x>>)
  queueActive,    \* ... the active flag of its consumer
  queueSent,      \* ... what its consumer transmitted
  puts            \* number of update calls so far

queueVars == <<cell, queue, queueActive, queueSent, puts>>

VARIABLES
  pacePc,         \* one worker's loop taken alone: "test", "work", "delay", "slept"
  paceActive,     \* ... the value of active it read
  nowMillis,      \* millis(), a 32-bit counter
  startMillis,    \* uint32_t start
  workMs,         \* ghost: the time the cycle's processing really took (ms)
  elapsed,        \* int32_t elapsed
  requiredDelay,  \* int32_t requiredDelay
  sleptMs,        \* the time handed to the last vTaskDelay (ms)
  paceCycles      \* number of cycles completed

paceVars == <<pacePc, paceActive, nowMillis, startMillis, workMs, elapsed, requiredDelay,
              sleptMs, paceCycles>>

VARIABLES
  resetSeen       \* ghost of the step-by-step runs: "none" until a reset makes its
                  \* first assignment; then "during" if update() was between its
                  \* read and its writes of the integrator at that moment, else
                  \* "clean"; "stepped" once a later update() has begun

VARIABLES
  lateTx          \* ghost, per channel: transmits made since setActive(false) returned
                  \* (0 while the channel is active)

raceVars == <<resetSeen, lateTx>>

\* the variables of the single-function runs
\* ... all of them but the ghost of the step-by-step runs
calmVars == <<wrapVars, cmdVars, serVars, mainVars, queueVars, paceVars>>

auxVars == <<calmVars, raceVars>>

procVars == <<imuProcessor, axis, pstep, lastOp, prevOp, before, lastNow, lastGyro,
              deltaTimeUsed, anomalous, auxVars>>

VARIABLES
  active,         \* per channel: should this be sending?
  dirty,          \* per channel: dirty flag
  data,           \* per channel: the snapshot held (Transport::data, Emitter fields)
  dataLock,       \* per channel: "free" or the context holding the mutex
  wpc,            \* per channel: position of the worker task ("off" before begin)
  sawActive,      \* per channel, ghost: what the worker's last test of active read
  held,           \* per channel, ghost: data when the worker last cleared dirty
  wire,           \* per channel, ghost: the records transmitted, in order
  updates,        \* per channel, ghost: the snapshots of the completed update calls
  ppc,            \* position of the loop task (the producer)
  pdata,          \* loop(): the local IMUData returned by getData
  locQ,           \* updateGyroIntegration: gyroQuaternion as read
  locE,           \* updateGyroIntegration: gyroEuler
  locDt,          \* IMUProcessor::update: deltaTime
  cycle,          \* number of loop() cycles started
  connected,      \* a BLE central is connected
  sampled,        \* ghost: what the loop's last isConnected() returned
  blepc,          \* position of the NimBLE host task inside onWrite
  rx,             \* RESET_GYRO lines waiting in the serial receive buffer
  resets,         \* number of RESET_GYRO commands received so far
  coherent        \* ghost: accumulated-angle triples written by one conversion or one reset

chanVars == <<active, dirty, data, dataLock, wpc, sawActive, held, wire, updates,
              ppc, pdata, locQ, locE, locDt, cycle, connected, sampled, blepc,
              rx, resets, coherent, auxVars>>

\* the processor's ghosts and the channels, for the runs that leave them alone
frameVars == <<axis, pstep, lastOp, prevOp, before, lastNow, lastGyro, deltaTimeUsed, anomalous,
               active, dirty, data, dataLock, wpc, sawActive, held, wire, updates,
               ppc, pdata, locQ, locE, locDt, cycle, connected, sampled, blepc,
               rx, resets, coherent>>

restVars == <<frameVars, mainVars, queueVars, raceVars, paceVars>>

\* all but the processor and the variables of main.cpp
driverFrame == <<frameVars, wrapVars, cmdVars, serVars, queueVars, raceVars, paceVars>>

vars == <<procVars, chanVars>>

----------------------------------------------------------------------------
\* Bounds of the model
MaxProcSteps == 3

\* loop() cycles and RESET_GYRO commands in a run of the channel framework
MaxCycles == 2

MaxResets == 1

----------------------------------------------------------------------------
\* 32-bit unsigned arithmetic on [hi, lo] halves

Half == 2^16

U32(h, l) == [hi |-> h, lo |-> l]

\* a - b modulo 2^32 (uint32_t subtraction, IMUProcessor.h:130)
Sub32(a, b) ==
  LET borrow == IF a.lo < b.lo THEN 1 ELSE 0
  IN  U32((a.hi - b.hi - borrow) % Half, (a.lo - b.lo) % Half)

\* a + k modulo 2^32, for 0 <= k < 2^31
Add32(a, k) ==
  LET l == a.lo + (k % Half)
  IN  U32((a.hi + (k \div Half) + (l \div Half)) % Half, l % Half)

\* numeric order of two counters
Lt32(a, b) == a.hi < b.hi \/ (a.hi = b.hi /\ a.lo < b.lo)

\* the counter value, when it fits a TLC integer
Val32(a) == a.hi * Half + a.lo

----------------------------------------------------------------------------
\* Angles (micro-degrees)

Deg == 1000 * 1000

FullTurn == 360 * Deg

FUSION_IDENTITY_QUATERNION == 0

\* FusionQuaternionMultiply followed by FusionQuaternionNormalise, on the
\* one-axis subgroup: the angles add, modulo 720 degrees
FusionQuaternionMultiply(q, delta) == (q + delta) % (2 * FullTurn)

\* half the spacing of the floats next to 180 (2^-16 degree), rounded down
HalfUlp180 == 7

\* atan2f in degrees of a direction at angle t (any integer).  atan2f
\* ranges over [-pi, pi]: a direction less than half a float spacing past
\* the half turn gives the float -180 itself.
Atan2Deg(t) ==
  LET r == t % FullTurn
  IN  IF r <= 180 * Deg THEN r
      ELSE IF r <= 180 * Deg + HalfUlp180 THEN -180 * Deg
      ELSE r - FullTurn

\* FusionQuaternionToEuler of the rotation by q about `ax`
\*   x: roll  = atan2(sin t, cos t), pitch = 0, yaw = 0
\*   z: roll  = 0, pitch = 0, yaw = atan2(sin t, cos t)
\*   y: roll  = yaw = atan2(0, cos t), pitch = asin(sin t)
FusionQuaternionToEuler(q, ax) ==
  LET t == q % FullTurn
      back == t > 90 * Deg /\ t < 270 * Deg      \* cos t < 0
  IN  CASE ax = "x" -> [roll |-> Atan2Deg(t), pitch |-> 0, yaw |-> 0]
        [] ax = "z" -> [roll |-> 0, pitch |-> 0, yaw |-> Atan2Deg(t)]
        [] OTHER    -> [roll  |-> IF back THEN 180 * Deg ELSE 0,
                        pitch |-> IF t <= 90 * Deg THEN t
                                  ELSE IF t < 270 * Deg THEN 180 * Deg - t
                                  ELSE t - FullTurn,
                        yaw   |-> IF back THEN 180 * Deg ELSE 0]

RECURSIVE wrapUp(_)
wrapUp(angle) == IF angle < -180 * Deg THEN wrapUp(angle + FullTurn) ELSE angle

RECURSIVE wrapDown(_)
wrapDown(angle) == IF angle > 180 * Deg THEN wrapDown(angle - FullTurn) ELSE angle

\* IMUProcessor::wrapAngle: the two loops in order
wrapAngle(angle) == wrapDown(wrapUp(angle))


----------------------------------------------------------------------------
\* External collaborators: the Fusion library's offset filter and AHRS

\* FusionOffsetInitialise(&offset, 200): timeout = 5 s * sample rate
OffsetTimeout == 5 * 200

\* stationary threshold of the offset filter (deg/s)
OffsetThreshold == 3

Abs(x) == IF x < 0 THEN -x ELSE x

\* FusionOffsetUpdate: subtracts the learned offset; the timer counts the
\* consecutive stationary samples and restarts on motion
FusionOffsetUpdate(off, gyroscope) ==
  LET g == gyroscope - off.gyroscopeOffset
  IN  IF Abs(g) > OffsetThreshold
        THEN [rate |-> g, offset |-> [off EXCEPT !.timer = 0]]
        ELSE IF off.timer < OffsetTimeout
          THEN [rate |-> g, offset |-> [off EXCEPT !.timer = @ + 1]]
          ELSE [rate |-> g, offset |-> off]

\* FusionAhrsUpdateNoMagnetometer: the engine's retained orientation advanced
\* by the corrected rate over deltaTime (about the run's axis)
FusionAhrsUpdateNoMagnetometer(ahrs, gyroscope, accel, deltaTime) ==
  FusionQuaternionMultiply(ahrs, gyroscope * deltaTime)

----------------------------------------------------------------------------
\* IMUProcessor

\* the fallback deltaTime 0.01f, in microseconds
FallbackDelta == 10000

\* the guard's upper limit 0.1f, in microseconds
MaxDelta == 100000

\* (now - lastUpdateMicros) > 0.1 s, on the halves
ExceedsMaxDelta(d) ==
  d.hi > MaxDelta \div Half \/ (d.hi = MaxDelta \div Half /\ d.lo > MaxDelta % Half)

\* mutant of DeltaTime: the limit itself is rejected (>= for >)
DeltaTime_LimitExcluded(now, last) ==
  LET d == Sub32(now, last)
  IN  IF (d.hi = 0 /\ d.lo = 0) \/ ExceedsMaxDelta(d) \/ d = U32(MaxDelta \div Half, MaxDelta % Half)
        THEN FallbackDelta
        ELSE Val32(d)

\* IMUProcessor::update, the delta-time guard: deltaTime in microseconds
DeltaTime(now, last) ==
  LET d == Sub32(now, last)
  IN  IF (d.hi = 0 /\ d.lo = 0) \/ ExceedsMaxDelta(d)
        THEN FallbackDelta
        ELSE Val32(d)

\* if (deltaTime <= 0.0f || deltaTime > 0.1f), on the 32-bit difference
GuardRejects(d) == (d.hi = 0 /\ d.lo = 0) \/ ExceedsMaxDelta(d)

\* updateGyroIntegration, first half: the small rotation, applied only
\* when omegaMag > 0 and deltaTime > 0
IntegrateQuaternion(q, gyroscopeDegPerSec, deltaTime) ==
  IF gyroscopeDegPerSec # 0 /\ deltaTime > 0
    THEN FusionQuaternionMultiply(q, gyroscopeDegPerSec * deltaTime)
    ELSE q

\* updateGyroIntegration, second half: Euler angles of the integrator
GyroEuler(q, ax) ==
  LET e == FusionQuaternionToEuler(q, ax)
  IN  [roll |-> wrapAngle(e.roll), pitch |-> wrapAngle(e.pitch),
       yaw |-> wrapAngle(e.yaw)]

\* the steps of resetGyroIntegration, one per assignment
ResetQuaternion(p) == [p EXCEPT !.gyroQuaternion = FUSION_IDENTITY_QUATERNION]
ResetX(p) == [p EXCEPT !.accumulatedGyroX = 0]
ResetY(p) == [p EXCEPT !.accumulatedGyroY = 0]
ResetZ(p) == [p EXCEPT !.accumulatedGyroZ = 0]

\* mutants of resetGyroIntegration: one accumulated angle forgotten; the
\* fusion engine re-initialised as well
resetGyroIntegration_KeepsYaw(p) == ResetY(ResetX(ResetQuaternion(p)))

resetGyroIntegration_ResetsFusion(p) ==
  [ResetZ(ResetY(ResetX(ResetQuaternion(p))))
     EXCEPT !.g_ahrs = FUSION_IDENTITY_QUATERNION,
            !.fusionEuler = [roll |-> 0, pitch |-> 0, yaw |-> 0]]

\* IMUProcessor::resetGyroIntegration run to completion
resetGyroIntegration(p) == ResetZ(ResetY(ResetX(ResetQuaternion(p))))

\* IMUProcessor::update up to the call of updateGyroIntegration: sensor
\* read, delta-time guard, offset filter, AHRS, fused Euler angles
SampleAndFuse(p, s, now, ax) ==
  LET dt  == DeltaTime(now, p.lastUpdateMicros)
      o   == FusionOffsetUpdate(p.offset, s.gyro)
      a   == FusionAhrsUpdateNoMagnetometer(p.g_ahrs, o.rate, s.accel, dt)
  IN  [p EXCEPT !.temperatureC = s.temp,
                !.accelerometer = s.accel,
                !.lastUpdateMicros = now,
                !.gyroscopeDegPerSec = o.rate,
                !.offset = o.offset,
                !.g_ahrs = a,
                !.fusionEuler = FusionQuaternionToEuler(a, ax)]

\* updateGyroIntegration run to completion
updateGyroIntegration(p, gyroscopeDegPerSec, deltaTime, ax) ==
  LET q == IntegrateQuaternion(p.gyroQuaternion, gyroscopeDegPerSec, deltaTime)
      e == GyroEuler(q, ax)
  IN  [p EXCEPT !.gyroQuaternion = q,
                !.accumulatedGyroX = e.roll,
                !.accumulatedGyroY = e.pitch,
                !.accumulatedGyroZ = e.yaw]

\* an update that stores the time of the call only when the interval passed
\* the guard
update_KeepsTimeOnFallback(p, s, now, ax) ==
  LET dt == DeltaTime(now, p.lastUpdateMicros)
      f  == SampleAndFuse(p, s, now, ax)
      g  == IF GuardRejects(Sub32(now, p.lastUpdateMicros))
              THEN [f EXCEPT !.lastUpdateMicros = p.lastUpdateMicros]
              ELSE f
  IN  updateGyroIntegration(g, g.gyroscopeDegPerSec, dt, ax)

\* IMUProcessor::update run to completion
update(p, s, now, ax) ==
  LET dt == DeltaTime(now, p.lastUpdateMicros)
      f  == SampleAndFuse(p, s, now, ax)
  IN  updateGyroIntegration(f, f.gyroscopeDegPerSec, dt, ax)

\* IMUProcessor::getData
getData(p, ax) ==
  [ax |-> p.accelerometer[1], ay |-> p.accelerometer[2], az |-> p.accelerometer[3],
   gx |-> IF ax = "x" THEN p.gyroscopeDegPerSec ELSE 0,
   gy |-> IF ax = "y" THEN p.gyroscopeDegPerSec ELSE 0,
   gz |-> IF ax = "z" THEN p.gyroscopeDegPerSec ELSE 0,
   accumulatedGyroX |-> p.accumulatedGyroX,
   accumulatedGyroY |-> p.accumulatedGyroY,
   accumulatedGyroZ |-> p.accumulatedGyroZ,
   fusionRoll |-> p.fusionEuler.roll,
   fusionPitch |-> p.fusionEuler.pitch,
   fusionYaw |-> p.fusionEuler.yaw,
   temperatureC |-> p.temperatureC,
   timeSec |-> p.lastUpdateMicros]

----------------------------------------------------------------------------
\* Inputs

Axes == {"x", "y", "z"}

\* the sensor's readings: at rest, a slow turn, a fast turn the other way
Samples ==
  {[gyro |-> 0, accel |-> <<0, 0, 1000>>, temp |-> 25],
   [gyro |-> 90, accel |-> <<0, 0, 1000>>, temp |-> 31],
   [gyro |-> -1500, accel |-> <<100, 0, 995>>, temp |-> 25]}

\* micros() at construction: just after boot, and shortly before the
\* 32-bit counter wraps
BootMicros == {U32(0, 500), U32(Half - 1, Half - 50)}

\* time elapsed between two reads of micros() (us)
Elapsed == {0, 1, MaxDelta, MaxDelta + 1}

\* micros() after `last`: the elapsed times above, a short step that is
\* certain to cross the wrap from the late boot time (100 us), and one
\* microsecond short of a whole turn of the counter
NowChoices(last) ==
  {Add32(last, e) : e \in Elapsed \cup {100}} \cup {Sub32(last, U32(0, 1))}

\* contents of the fields the constructor leaves uninitialised
Uninit == {0, 7 * Deg}

\* IMUProcessor::IMUProcessor
Constructed(boot, u) ==
  [g_ahrs |-> FUSION_IDENTITY_QUATERNION,
   fusionEuler |-> [roll |-> u, pitch |-> u, yaw |-> u],
   offset |-> [timer |-> 0, gyroscopeOffset |-> 0],
   gyroQuaternion |-> FUSION_IDENTITY_QUATERNION,
   gyroscopeDegPerSec |-> u,
   accelerometer |-> <<u, u, u>>,
   temperatureC |-> u,
   accumulatedGyroX |-> u,
   accumulatedGyroY |-> u,
   accumulatedGyroZ |-> u,
   lastUpdateMicros |-> boot]

----------------------------------------------------------------------------
\* The channel framework: Transport / Emitter, their workers, the loop task

\* the wireless channel (BluetoothEmitter, an Emitter) and the serial text
\* channel (SerialTransport, a Transport)
Channels == {"bt", "serial"}

\* IMUData / the Emitter's fourteen fields, before anything was stored
JunkData(u) ==
  [ax |-> u, ay |-> u, az |-> u, gx |-> u, gy |-> u, gz |-> u,
   accumulatedGyroX |-> u, accumulatedGyroY |-> u, accumulatedGyroZ |-> u,
   fusionRoll |-> u, fusionPitch |-> u, fusionYaw |-> u,
   temperatureC |-> u, timeSec |-> U32(0, 0)]

AccTriple(d) == <<d.accumulatedGyroX, d.accumulatedGyroY, d.accumulatedGyroZ>>

\* the sample the sensor returns in the channel runs: a fast turn, so that
\* all three accumulated angles leave zero (150 degrees per cycle about y)
LoopSample == [gyro |-> 1500, accel |-> <<0, 0, 1000>>, temp |-> 25]

\* time between two loop() cycles (us)
LoopPeriod == MaxDelta

\* the single-function runs are not in progress
WrapIdle ==
  /\ wrapKind = "angle"
  /\ wrapIn = 0
  /\ wrapOut = <<>>

CmdIdle ==
  /\ cmdPath = "ble"
  /\ cmdIn = <<>>
  /\ cmdCalls = 0
  /\ cmdDone = FALSE

SerialIdle ==
  /\ feed = <<>>
  /\ linesFed = 0
  /\ rxBytes = <<>>
  /\ serialCmdBuffer = <<>>
  /\ inTransmit = FALSE
  /\ prevLen = -1
  /\ lastByte = "none"
  /\ lineBytes = <<>>
  /\ split = FALSE

\* ... none but those of `group`
MainIdle ==
  /\ mpc = "setup"
  /\ imuStatus = -1
  /\ errorLines = 0
  /\ fusionInitialised = FALSE
  /\ bleStarted = FALSE
  /\ connectedCount = 0
  /\ mainCycles = 0
  /\ jsonRecords = 0
  /\ blePackets = 0

QueueIdle ==
  /\ cell = [active |-> FALSE, dirty |-> FALSE, data |-> JunkData(0),
             dataLock |-> "free", wire |-> <<>>]
  /\ queue = <<>>
  /\ queueActive = FALSE
  /\ queueSent = <<>>
  /\ puts = 0

PaceIdle ==
  /\ pacePc = "test"
  /\ paceActive = FALSE
  /\ nowMillis = U32(0, 0)
  /\ startMillis = U32(0, 0)
  /\ workMs = 0
  /\ elapsed = 0
  /\ requiredDelay = 0
  /\ sleptMs = 0
  /\ paceCycles = 0

AuxIdleExcept(group) ==
  /\ group = "wrap" \/ WrapIdle
  /\ group = "cmd" \/ CmdIdle
  /\ group = "serial" \/ SerialIdle
  /\ group = "main" \/ MainIdle
  /\ group = "queue" \/ QueueIdle
  /\ group = "pace" \/ PaceIdle
  /\ resetSeen = "none"
  /\ lateTx = [c \in {"bt", "serial"} |-> 0]

AuxIdle == AuxIdleExcept("none")

\* Transport::Transport / Emitter::Emitter and the fields' initialisers
ChannelsConstructed(u) ==
  /\ active = [c \in Channels |-> FALSE]
  /\ dirty = [c \in Channels |-> FALSE]
  /\ data = [c \in Channels |-> JunkData(u)]
  /\ dataLock = [c \in Channels |-> "free"]
  /\ wpc = [c \in Channels |-> "off"]
  /\ sawActive = [c \in Channels |-> "unread"]
  /\ held = [c \in Channels |-> JunkData(u)]
  /\ wire = [c \in Channels |-> <<>>]
  /\ updates = [c \in Channels |-> <<>>]
  /\ ppc = "begin_bt"
  /\ pdata = JunkData(u)
  /\ locQ = FUSION_IDENTITY_QUATERNION
  /\ locE = [roll |-> 0, pitch |-> 0, yaw |-> 0]
  /\ locDt = 0
  /\ cycle = 0
  /\ connected = FALSE
  /\ sampled = "unread"
  /\ blepc = "idle"
  /\ rx = 0
  /\ resets = 0
  /\ coherent = {<<0, 0, 0>>, <<u, u, u>>}

ghostVars == <<pstep, lastOp, prevOp, before, lastNow, lastGyro, deltaTimeUsed, anomalous,
               auxVars>>

\* ... without the ghost of the step-by-step runs
ghostBase == <<pstep, lastOp, prevOp, before, lastNow, lastGyro, deltaTimeUsed, anomalous,
               calmVars>>

\* update() between its read of gyroQuaternion and its last write of the
\* accumulated angles
AdvancePcs == {"ig_write", "w_x", "w_y", "w_z"}

\* resetSeen after the assignment of resetGyroIntegration made at position pc
MarkReset(pc) ==
  IF pc = "r_q"
    THEN (IF ppc \in AdvancePcs THEN "during" ELSE "clean")
    ELSE resetSeen

lockVars == <<active, dirty, data, dataLock>>

workerVars == <<wpc, sawActive, held, wire>>

loopVars == <<pdata, locQ, locE, locDt, cycle>>

envVars == <<connected, sampled, blepc, rx, resets>>

\* a take that does not wait for the mutex
CanTake_NoLock(c) == TRUE

\* a take on one mutex shared by all channels
CanTake_SharedLock(c) == \A o \in Channels : dataLock[o] = "free"

\* xSemaphoreTake(dataLock, portMAX_DELAY) returns once the mutex is free
CanTake(c) == dataLock[c] = "free"

\* a setActive that drops its argument
setActive_Ignored(c, a) == active' = active

\* Transport::setActive / Emitter::setActive
setActive(c, a) == active' = [active EXCEPT ![c] = a]

\* BluetoothEmitter::isConnected
isConnected == connected

\* --- the loop task -------------------------------------------------------

\* Transport::begin / Emitter::begin: active = true, the worker task created
Begin(c, from, to) ==
  /\ ppc = from
  /\ setActive(c, TRUE)
  /\ wpc' = [wpc EXCEPT ![c] = "check"]
  /\ ppc' = to
  /\ UNCHANGED <<procVars, dirty, data, dataLock, sawActive, held, wire, updates,
                 loopVars, envVars, coherent>>

\* IMUProcessor::update up to updateGyroIntegration's read of gyroQuaternion
\* (the fields written here are touched by the loop task alone)
LoopSampleAndFuse ==
  /\ ppc = "idle"
  /\ cycle < MaxCycles
  /\ LET now == Add32(imuProcessor.lastUpdateMicros, LoopPeriod)
     IN  /\ imuProcessor' = SampleAndFuse(imuProcessor, LoopSample, now, axis)
         /\ locDt' = DeltaTime(now, imuProcessor.lastUpdateMicros)
  /\ locQ' = imuProcessor.gyroQuaternion
  /\ cycle' = cycle + 1
  /\ ppc' = "ig_write"
  /\ resetSeen' = (IF resetSeen = "none" THEN "none" ELSE "stepped")
  /\ UNCHANGED lateTx
  /\ UNCHANGED <<axis, ghostBase, lockVars, workerVars, updates, pdata, locE,
                 envVars, coherent>>

\* ... multiplied, normalised and stored, and converted to Euler angles
IntegrateWrite ==
  /\ ppc = "ig_write"
  /\ LET turning == imuProcessor.gyroscopeDegPerSec # 0 /\ locDt > 0
         q == IF turning
                THEN IntegrateQuaternion(locQ, imuProcessor.gyroscopeDegPerSec, locDt)
                ELSE imuProcessor.gyroQuaternion
         e == GyroEuler(q, axis)
     IN  /\ imuProcessor' = [imuProcessor EXCEPT !.gyroQuaternion = q]
         /\ locE' = e
         /\ coherent' = coherent \cup {<<e.roll, e.pitch, e.yaw>>}
  /\ ppc' = "w_x"
  /\ UNCHANGED <<axis, ghostVars, lockVars, workerVars, updates, pdata, locQ, locDt,
                 cycle, envVars>>

\* accumulatedGyroX = wrapAngle(gyroEuler.angle.roll), then pitch, then yaw
WriteAngle(from, to) ==
  /\ ppc = from
  /\ imuProcessor' =
       CASE from = "w_x" -> [imuProcessor EXCEPT !.accumulatedGyroX = locE.roll]
         [] from = "w_y" -> [imuProcessor EXCEPT !.accumulatedGyroY = locE.pitch]
         [] OTHER        -> [imuProcessor EXCEPT !.accumulatedGyroZ = locE.yaw]
  /\ ppc' = to
  /\ UNCHANGED <<axis, ghostVars, lockVars, workerVars, updates, loopVars, envVars,
                 coherent>>

\* the snapshot `d` with the fields a copy of `s` writes at step `k`:
\* 1 -- ax .. gz and accumulatedGyroX, 2 -- accumulatedGyroY,
\* 3 -- accumulatedGyroZ, the fused angles, temperature and time
CopyFields(d, s, k) ==
  CASE k = 1 -> [d EXCEPT !.ax = s.ax, !.ay = s.ay, !.az = s.az,
                          !.gx = s.gx, !.gy = s.gy, !.gz = s.gz,
                          !.accumulatedGyroX = s.accumulatedGyroX]
    [] k = 2 -> [d EXCEPT !.accumulatedGyroY = s.accumulatedGyroY]
    [] OTHER -> [d EXCEPT !.accumulatedGyroZ = s.accumulatedGyroZ,
                          !.fusionRoll = s.fusionRoll,
                          !.fusionPitch = s.fusionPitch,
                          !.fusionYaw = s.fusionYaw,
                          !.temperatureC = s.temperatureC,
                          !.timeSec = s.timeSec]

\* IMUProcessor::getData, field by field from the processor
GetData(from, k, to) ==
  /\ ppc = from
  /\ pdata' = CopyFields(pdata, getData(imuProcessor, axis), k)
  /\ ppc' = to
  /\ UNCHANGED <<procVars, lockVars, workerVars, updates, locQ, locE, locDt, cycle,
                 envVars, coherent>>

\* update(): xSemaphoreTake(dataLock, portMAX_DELAY)
UpdateTake(c, from, to) ==
  /\ ppc = from
  /\ CanTake(c)
  /\ dataLock' = [dataLock EXCEPT ![c] = "loop"]
  /\ ppc' = to
  /\ UNCHANGED <<procVars, active, dirty, data, workerVars, updates, loopVars,
                 envVars, coherent>>

\* an update that stores the snapshot and forgets dirty = true
UpdateCopy_DirtyNotSet(c, from, k, to) ==
  /\ ppc = from
  /\ data' = [data EXCEPT ![c] = IF c = "bt"
                                   THEN CopyFields(data[c], getData(imuProcessor, axis), k)
                                   ELSE pdata]
  /\ updates' = [updates EXCEPT ![c] = IF k = 3 THEN Append(@, data'[c]) ELSE @]
  /\ ppc' = to
  /\ UNCHANGED <<procVars, active, dirty, dataLock, workerVars, loopVars, envVars,
                 coherent>>

\* an update that stores nothing while the channel is inactive
UpdateCopy_SkipsInactive(c, from, k, to) ==
  /\ ppc = from
  /\ LET d == IF c = "bt"
                THEN CopyFields(data[c], getData(imuProcessor, axis), k)
                ELSE pdata
     IN  IF active[c]
           THEN /\ data' = [data EXCEPT ![c] = d]
                /\ IF k = 3
                     THEN /\ dirty' = [dirty EXCEPT ![c] = TRUE]
                          /\ updates' = [updates EXCEPT ![c] = Append(@, d)]
                     ELSE UNCHANGED <<dirty, updates>>
           ELSE UNCHANGED <<data, dirty, updates>>
  /\ ppc' = to
  /\ UNCHANGED <<procVars, active, dataLock, workerVars, loopVars, envVars, coherent>>

\* Emitter::update: the fields read from the processor and stored at step k;
\* Transport::update: this->data = data, the whole argument at step 3.
\* The last step sets dirty.
UpdateCopy(c, from, k, to) ==
  /\ ppc = from
  /\ LET d == IF c = "bt"
                THEN CopyFields(data[c], getData(imuProcessor, axis), k)
                ELSE pdata
     IN  /\ data' = [data EXCEPT ![c] = d]
         /\ IF k = 3
              THEN /\ dirty' = [dirty EXCEPT ![c] = TRUE]
                   /\ updates' = [updates EXCEPT ![c] = Append(@, d)]
              ELSE UNCHANGED <<dirty, updates>>
  /\ ppc' = to
  /\ UNCHANGED <<procVars, active, dataLock, workerVars, loopVars, envVars, coherent>>

\* an update that returns without giving the mutex back
UpdateGive_KeepsLock(c, from, to) ==
  /\ ppc = from
  /\ ppc' = to
  /\ UNCHANGED <<procVars, lockVars, workerVars, updates, loopVars, envVars, coherent>>

\* update(): xSemaphoreGive(dataLock)
UpdateGive(c, from, to) ==
  /\ ppc = from
  /\ dataLock' = [dataLock EXCEPT ![c] = "free"]
  /\ ppc' = to
  /\ UNCHANGED <<procVars, active, dirty, data, workerVars, updates, loopVars,
                 envVars, coherent>>

\* loop(): the serial channel is switched off while a central is connected
SyncActive ==
  /\ ppc = "sync"
  /\ sampled' = (IF isConnected THEN "connected" ELSE "disconnected")
  /\ setActive("serial", ~isConnected)
  /\ lateTx' = [lateTx EXCEPT !["serial"] = IF isConnected THEN @ ELSE 0]
  /\ ppc' = "idle"
  /\ UNCHANGED <<imuProcessor, axis, ghostBase, resetSeen, dirty, data, dataLock,
                 workerVars, updates, loopVars, connected, blepc, rx, resets, coherent>>

\* imuProcessor->update() run without interruption
LoopUpdate ==
  /\ ppc = "idle"
  /\ cycle < MaxCycles
  /\ LET now == Add32(imuProcessor.lastUpdateMicros, LoopPeriod)
         p   == update(imuProcessor, LoopSample, now, axis)
     IN  /\ imuProcessor' = p
         /\ locDt' = DeltaTime(now, imuProcessor.lastUpdateMicros)
         /\ locQ' = imuProcessor.gyroQuaternion
         /\ locE' = GyroEuler(p.gyroQuaternion, axis)
         /\ coherent' = coherent \cup
                          {<<p.accumulatedGyroX, p.accumulatedGyroY, p.accumulatedGyroZ>>}
  /\ cycle' = cycle + 1
  /\ ppc' = "g_all"
  /\ UNCHANGED <<axis, ghostVars, lockVars, workerVars, updates, pdata, envVars>>

\* imuProcessor->getData() run without interruption
LoopGetData ==
  /\ ppc = "g_all"
  /\ pdata' = getData(imuProcessor, axis)
  /\ ppc' = "bt_take"
  /\ UNCHANGED <<procVars, lockVars, workerVars, updates, locQ, locE, locDt, cycle,
                 envVars, coherent>>

\* Emitter::update: all fourteen fields read and stored without interruption
UpdateCopyAll(c, from, to) ==
  /\ ppc = from
  /\ LET d == getData(imuProcessor, axis)
     IN  /\ data' = [data EXCEPT ![c] = d]
         /\ dirty' = [dirty EXCEPT ![c] = TRUE]
         /\ updates' = [updates EXCEPT ![c] = Append(@, d)]
  /\ ppc' = to
  /\ UNCHANGED <<procVars, active, dataLock, workerVars, loopVars, envVars, coherent>>

\* setup(): both channels begun
Setup ==
  \/ Begin("bt", "begin_bt", "begin_serial")
  \/ Begin("serial", "begin_serial", "idle")

\* loop(): the calls on the channels
LoopChannels ==
  \/ UpdateTake("bt", "bt_take", "bt_1")
  \/ UpdateGive("bt", "bt_give", "serial_take")
  \/ UpdateTake("serial", "serial_take", "serial_3")
  \/ UpdateCopy("serial", "serial_3", 3, "serial_give")
  \/ UpdateGive("serial", "serial_give", "sync")
  \/ SyncActive

\* loop() with every call on the processor run without interruption
Loop ==
  \/ Setup
  \/ LoopUpdate
  \/ LoopGetData
  \/ LoopChannels
  \/ UpdateCopyAll("bt", "bt_1", "bt_give")

\* loop() with the processor's fields read and written one at a time
LoopFine ==
  \/ Setup
  \/ LoopSampleAndFuse
  \/ IntegrateWrite
  \/ WriteAngle("w_x", "w_y")
  \/ WriteAngle("w_y", "w_z")
  \/ WriteAngle("w_z", "g_1")
  \/ GetData("g_1", 1, "g_2")
  \/ GetData("g_2", 2, "g_3")
  \/ GetData("g_3", 3, "bt_take")
  \/ LoopChannels
  \/ UpdateCopy("bt", "bt_1", 1, "bt_2")
  \/ UpdateCopy("bt", "bt_2", 2, "bt_3")
  \/ UpdateCopy("bt", "bt_3", 3, "bt_give")

\* --- resetGyroIntegration called from another task -----------------------

ResetPcs == {"r_q", "r_x", "r_y", "r_z"}

\* the assignment of resetGyroIntegration made at position pc
ResetStep(p, pc) ==
  CASE pc = "r_q" -> ResetQuaternion(p)
    [] pc = "r_x" -> ResetX(p)
    [] pc = "r_y" -> ResetY(p)
    [] OTHER      -> ResetZ(p)

\* the position after pc; `done` after the last assignment
AfterReset(pc, done) ==
  CASE pc = "r_q" -> "r_x"
    [] pc = "r_x" -> "r_y"
    [] pc = "r_y" -> "r_z"
    [] OTHER      -> done

\* --- the worker task of a channel (Transport::task / Emitter::task) -------

\* a worker that reads active and goes on regardless
WorkerCheck_NoSkip(c) ==
  /\ wpc[c] = "check"
  /\ sawActive' = [sawActive EXCEPT ![c] = IF active[c] THEN "yes" ELSE "no"]
  /\ wpc' = [wpc EXCEPT ![c] = "take"]
  /\ UNCHANGED <<procVars, lockVars, held, wire, updates, ppc, loopVars, envVars,
                 coherent>>

\* if (!active) { vTaskDelay(100); continue; }
WorkerCheck(c) ==
  /\ wpc[c] = "check"
  /\ sawActive' = [sawActive EXCEPT ![c] = IF active[c] THEN "yes" ELSE "no"]
  /\ wpc' = [wpc EXCEPT ![c] = IF active[c] THEN "take" ELSE "check"]
  /\ UNCHANGED <<procVars, lockVars, held, wire, updates, ppc, loopVars, envVars,
                 coherent>>

\* a worker that transmits a dirty snapshot and leaves dirty set
WorkerTake_KeepsDirty(c) ==
  /\ wpc[c] = "take"
  /\ CanTake(c)
  /\ dataLock' = [dataLock EXCEPT ![c] = "worker"]
  /\ held' = [held EXCEPT ![c] = IF dirty[c] THEN data[c] ELSE @]
  /\ wpc' = [wpc EXCEPT ![c] = IF dirty[c] THEN "tx" ELSE "give"]
  /\ UNCHANGED <<procVars, active, dirty, data, sawActive, wire, updates, ppc,
                 loopVars, envVars, coherent>>

\* a worker that calls transmit's reader also when nothing is dirty
WorkerTake_DrainsAlways(c) ==
  /\ wpc[c] = "take"
  /\ CanTake(c)
  /\ dataLock' = [dataLock EXCEPT ![c] = "worker"]
  /\ IF dirty[c]
       THEN /\ dirty' = [dirty EXCEPT ![c] = FALSE]
            /\ held' = [held EXCEPT ![c] = data[c]]
            /\ wpc' = [wpc EXCEPT ![c] = "tx"]
       ELSE /\ wpc' = [wpc EXCEPT ![c] = IF c = "serial" THEN "drain" ELSE "give"]
            /\ UNCHANGED <<dirty, held>>
  /\ UNCHANGED <<procVars, active, data, sawActive, wire, updates, ppc,
                 loopVars, envVars, coherent>>

\* xSemaphoreTake(dataLock, portMAX_DELAY); if (dirty) { dirty = false; ...
WorkerTake(c) ==
  /\ wpc[c] = "take"
  /\ CanTake(c)
  /\ dataLock' = [dataLock EXCEPT ![c] = "worker"]
  /\ IF dirty[c]
       THEN /\ dirty' = [dirty EXCEPT ![c] = FALSE]
            /\ held' = [held EXCEPT ![c] = data[c]]
            /\ wpc' = [wpc EXCEPT ![c] = "tx"]
       ELSE /\ wpc' = [wpc EXCEPT ![c] = "give"]
            /\ UNCHANGED <<dirty, held>>
  /\ UNCHANGED <<procVars, active, data, sawActive, wire, updates, ppc,
                 loopVars, envVars, coherent>>

\* transmit() / send(): the record is serialised from the held snapshot and
\* sent; the serial channel then looks at its receive buffer
WorkerTransmit(c) ==
  /\ wpc[c] = "tx"
  /\ wire' = [wire EXCEPT ![c] = Append(@, [n |-> Len(updates[c]), rec |-> data[c]])]
  /\ wpc' = [wpc EXCEPT ![c] = IF c = "serial" THEN "drain" ELSE "give"]
  /\ lateTx' = [lateTx EXCEPT ![c] = IF active[c] THEN @ ELSE @ + 1]
  /\ UNCHANGED <<imuProcessor, axis, ghostBase, resetSeen, lockVars, sawActive, held,
                 updates, ppc, loopVars, envVars, coherent>>

\* SerialTransport::transmit: while (Serial.available() > 0) -- a complete
\* RESET_GYRO line is consumed and the reset handler called
WorkerDrain(c) ==
  /\ wpc[c] = "drain"
  /\ IF rx > 0
       THEN /\ rx' = rx - 1
            /\ wpc' = [wpc EXCEPT ![c] = "r_q"]
       ELSE /\ wpc' = [wpc EXCEPT ![c] = "give"]
            /\ UNCHANGED rx
  /\ UNCHANGED <<procVars, lockVars, sawActive, held, wire, updates, ppc, loopVars,
                 connected, sampled, blepc, resets, coherent>>

\* resetGyroIntegration in the worker's context, one assignment at a time
WorkerReset(c) ==
  /\ wpc[c] \in ResetPcs
  /\ imuProcessor' = ResetStep(imuProcessor, wpc[c])
  /\ wpc' = [wpc EXCEPT ![c] = AfterReset(wpc[c], "drain")]
  /\ resetSeen' = MarkReset(wpc[c])
  /\ UNCHANGED lateTx
  /\ UNCHANGED <<axis, ghostBase, lockVars, sawActive, held, wire, updates, ppc,
                 loopVars, envVars, coherent>>

\* resetGyroIntegration in the worker's context, run without interruption
WorkerResetAll(c) ==
  /\ wpc[c] = "r_q"
  /\ imuProcessor' = resetGyroIntegration(imuProcessor)
  /\ wpc' = [wpc EXCEPT ![c] = "drain"]
  /\ UNCHANGED <<axis, ghostVars, lockVars, sawActive, held, wire, updates, ppc,
                 loopVars, envVars, coherent>>

\* a worker that gives the mutex and starts its next cycle without testing active
WorkerGive_SkipsCheck(c) ==
  /\ wpc[c] = "give"
  /\ dataLock' = [dataLock EXCEPT ![c] = "free"]
  /\ wpc' = [wpc EXCEPT ![c] = "take"]
  /\ UNCHANGED <<procVars, active, dirty, data, sawActive, held, wire, updates, ppc,
                 loopVars, envVars, coherent>>

\* a worker that goes to sleep without giving the mutex back
WorkerGive_KeepsLock(c) ==
  /\ wpc[c] = "give"
  /\ wpc' = [wpc EXCEPT ![c] = "check"]
  /\ UNCHANGED <<procVars, lockVars, sawActive, held, wire, updates, ppc,
                 loopVars, envVars, coherent>>

\* xSemaphoreGive(dataLock); vTaskDelay(requiredDelay)
WorkerGive(c) ==
  /\ wpc[c] = "give"
  /\ dataLock' = [dataLock EXCEPT ![c] = "free"]
  /\ wpc' = [wpc EXCEPT ![c] = "check"]
  /\ UNCHANGED <<procVars, active, dirty, data, sawActive, held, wire, updates, ppc,
                 loopVars, envVars, coherent>>

\* the worker's steps on its channel
WorkerCycle(c) ==
  \/ WorkerCheck(c)
  \/ WorkerTake(c)
  \/ WorkerTransmit(c)
  \/ WorkerDrain(c)
  \/ WorkerGive(c)

Worker(c) == WorkerCycle(c) \/ WorkerResetAll(c)

WorkerFine(c) == WorkerCycle(c) \/ WorkerReset(c)

\* --- the environment: the BLE central and the serial peer -----------------

\* a central connects or disconnects (NimBLEServer::getConnectedCount); the
\* server advertises once BluetoothEmitter::begin has run
Connect ==
  /\ wpc["bt"] # "off"
  /\ ~connected
  /\ connected' = TRUE
  /\ UNCHANGED <<procVars, lockVars, workerVars, updates, ppc, loopVars, sampled,
                 blepc, rx, resets, coherent>>

Disconnect ==
  /\ connected
  /\ connected' = FALSE
  /\ UNCHANGED <<procVars, lockVars, workerVars, updates, ppc, loopVars, sampled,
                 blepc, rx, resets, coherent>>

\* BluetoothEmitter::onWrite with a RESET_GYRO payload, on the NimBLE host task
OnWrite ==
  /\ connected
  /\ blepc = "idle"
  /\ resets < MaxResets
  /\ blepc' = "r_q"
  /\ resets' = resets + 1
  /\ UNCHANGED <<procVars, lockVars, workerVars, updates, ppc, loopVars, connected,
                 sampled, rx, coherent>>

\* imuProcessor->resetGyroIntegration() inside onWrite
OnWriteReset ==
  /\ blepc \in ResetPcs
  /\ imuProcessor' = ResetStep(imuProcessor, blepc)
  /\ blepc' = AfterReset(blepc, "idle")
  /\ resetSeen' = MarkReset(blepc)
  /\ UNCHANGED lateTx
  /\ UNCHANGED <<axis, ghostBase, lockVars, workerVars, updates, ppc, loopVars,
                 connected, sampled, rx, resets, coherent>>

\* imuProcessor->resetGyroIntegration() inside onWrite, run without interruption
OnWriteResetAll ==
  /\ blepc = "r_q"
  /\ imuProcessor' = resetGyroIntegration(imuProcessor)
  /\ blepc' = "idle"
  /\ UNCHANGED <<axis, ghostVars, lockVars, workerVars, updates, ppc, loopVars,
                 connected, sampled, rx, resets, coherent>>

\* a RESET_GYRO line arrives in the serial receive buffer
SerialLine ==
  /\ resets < MaxResets
  /\ rx' = rx + 1
  /\ resets' = resets + 1
  /\ UNCHANGED <<procVars, lockVars, workerVars, updates, ppc, loopVars, connected,
                 sampled, blepc, coherent>>

\* the peers: connection changes and RESET_GYRO commands
Peers == Connect \/ Disconnect \/ OnWrite \/ SerialLine

\* --- the channel framework as a whole ------------------------------------

\* the uninitialised fields hold this in the channel runs
ChannelJunk == 7 * Deg

\* the processor and the channels constructed
Booted ==
  /\ axis = "y"
  /\ imuProcessor = Constructed(U32(0, 500), ChannelJunk)
  /\ before = Constructed(U32(0, 500), ChannelJunk)
  /\ lastNow = U32(0, 500)
  /\ pstep = 0
  /\ lastOp = "init"
  /\ prevOp = "init"
  /\ lastGyro = 0
  /\ deltaTimeUsed = 0
  /\ anomalous = [prev |-> FALSE, last |-> FALSE]
  /\ ChannelsConstructed(ChannelJunk)

Init == Booted /\ AuxIdle

\* The channel framework with every call on the processor (update, getData,
\* the reads of Emitter::update, resetGyroIntegration) run without
\* interruption: the channels' own variables are not touched by these calls.
Next == Loop \/ (\E c \in Channels : Worker(c)) \/ Peers \/ OnWriteResetAll

Spec == Init /\ [][Next]_vars

\* Scheduling: the loop task and the worker tasks are FreeRTOS tasks that
\* sleep for a bounded time (delay / vTaskDelay) and run again, and a task
\* blocked in xSemaphoreTake(portMAX_DELAY) is woken when the mutex is given;
\* the NimBLE host task runs a started callback to its end.  A call the loop
\* task has made returns (LoopCalls); whether it samples again is left open,
\* and the peers owe nothing.
LoopCalls ==
  Setup \/ LoopGetData \/ LoopChannels \/ UpdateCopyAll("bt", "bt_1", "bt_give")

Fairness ==
  /\ WF_vars(LoopCalls)
  /\ \A c \in Channels : WF_vars(Worker(c))
  /\ WF_vars(OnWriteResetAll)

SpecFair == Init /\ [][Next]_vars /\ Fairness

\* the xSemaphoreTake of update() on either channel
LoopTakes ==
  \/ UpdateTake("bt", "bt_take", "bt_1")
  \/ UpdateTake("serial", "serial_take", "serial_3")

\* Scheduling of the mutex: the loop task blocked in
\* xSemaphoreTake(portMAX_DELAY) is on the mutex's wait list and is made ready
\* by the worker's xSemaphoreGive; the worker then sleeps for at least a tick
\* (vTaskDelay(max(1, 10 - elapsed))) and was created with priority 0, below
\* the loop task, so the waiting take is not passed over for ever by the
\* worker's next takes.
MutexFairness == SF_vars(LoopTakes)

SpecSched == Init /\ [][Next]_vars /\ Fairness /\ MutexFairness

\* The same tasks with the processor's fields accessed one at a time, as the
\* three tasks (loop, serial worker, NimBLE host) interleave on them.
NextRace == LoopFine \/ (\E c \in Channels : WorkerFine(c)) \/ Peers \/ OnWriteReset

SpecRace == Init /\ [][NextRace]_vars

----------------------------------------------------------------------------
\* The processor driven sequentially by one context

InitProc ==
  /\ axis \in Axes
  /\ \E boot \in BootMicros, u \in Uninit :
       /\ imuProcessor = Constructed(boot, u)
       /\ before = Constructed(boot, u)
       /\ lastNow = boot
  /\ pstep = 0
  /\ lastOp = "init"
  /\ prevOp = "init"
  /\ lastGyro = 0
  /\ deltaTimeUsed = 0
  /\ anomalous = [prev |-> FALSE, last |-> FALSE]
  /\ ChannelsConstructed(0)
  /\ AuxIdle

\* loop(): imuProcessor->update()
ProcUpdate ==
  /\ pstep < MaxProcSteps
  /\ \E s \in Samples, now \in NowChoices(imuProcessor.lastUpdateMicros) :
       /\ imuProcessor' = update(imuProcessor, s, now, axis)
       /\ lastNow' = now
       /\ lastGyro' = s.gyro
       /\ deltaTimeUsed' = DeltaTime(now, imuProcessor.lastUpdateMicros)
       /\ anomalous' = [prev |-> anomalous.last,
                        last |-> GuardRejects(Sub32(now, imuProcessor.lastUpdateMicros))]
  /\ before' = imuProcessor
  /\ lastOp' = "update"
  /\ prevOp' = lastOp
  /\ pstep' = pstep + 1
  /\ UNCHANGED <<axis, chanVars>>

\* a RESET_GYRO command: imuProcessor->resetGyroIntegration()
ProcReset ==
  /\ pstep < MaxProcSteps
  /\ imuProcessor' = resetGyroIntegration(imuProcessor)
  /\ before' = imuProcessor
  /\ lastOp' = "reset"
  /\ prevOp' = lastOp
  /\ pstep' = pstep + 1
  /\ UNCHANGED <<axis, lastNow, lastGyro, deltaTimeUsed, anomalous, chanVars>>

NextProc == ProcUpdate \/ ProcReset

SpecProc == InitProc /\ [][NextProc]_vars

----------------------------------------------------------------------------
\* Properties of the processor (checked under SpecProc)

\* the fields resetGyroIntegration is not meant to touch
KeptByReset(p) ==
  <<p.g_ahrs, p.fusionEuler, p.offset, p.gyroscopeDegPerSec, p.accelerometer,
    p.temperatureC, p.lastUpdateMicros>>

\* C8 -- Reset idempotence: after resetGyroIntegration the gyro-integrator
\* quaternion is the identity and the three accumulated angles are zero, from
\* any prior state; a second reset directly after the first leaves exactly
\* the state the first one produced.
C8_ResetIdempotent ==
  lastOp = "reset" =>
    /\ imuProcessor.gyroQuaternion = FUSION_IDENTITY_QUATERNION
    /\ imuProcessor.accumulatedGyroX = 0
    /\ imuProcessor.accumulatedGyroY = 0
    /\ imuProcessor.accumulatedGyroZ = 0
    /\ (prevOp = "reset" => imuProcessor = before)

\* two resets in a row after the integrator has turned away from identity
C8_Witness ==
  /\ lastOp = "reset"
  /\ prevOp = "reset"
  /\ pstep = 3
  /\ imuProcessor.g_ahrs # FUSION_IDENTITY_QUATERNION

\* C9 -- Reset frame: resetGyroIntegration leaves the fusion engine state,
\* the fused Euler angles, the offset filter, the last sample (accelerometer,
\* corrected gyro, temperature) and lastUpdateMicros as they were.
C9_ResetFrame ==
  lastOp = "reset" => KeptByReset(imuProcessor) = KeptByReset(before)

\* a reset that did change the integrator, with a fusion state and an offset
\* timer that have moved since construction
C9_Witness ==
  /\ lastOp = "reset"
  /\ before.gyroQuaternion # FUSION_IDENTITY_QUATERNION
  /\ before.accumulatedGyroY # 0
  /\ imuProcessor.g_ahrs # FUSION_IDENTITY_QUATERNION
  /\ imuProcessor.offset.timer > 0

\* the interval of the last update as the counters give it, modulo 2^32
LastInterval == Sub32(lastNow, before.lastUpdateMicros)

\* the interval is in (0, 100000] microseconds
IntervalAccepted(d) == d.hi < 2 /\ Val32(d) > 0 /\ Val32(d) <= 100000

\* the integrator after the last update is the one before it turned by
\* the corrected rate over dt
IntegratedOver(dt) ==
  imuProcessor.gyroQuaternion =
    (before.gyroQuaternion + imuProcessor.gyroscopeDegPerSec * dt) % (720 * Deg)

\* C10 (as stated) -- Delta-time clamp: when nowMicros - lastMicros is 0, or
\* is negative because the counter wrapped (now numerically below last), or
\* exceeds 100000, the step uses the fallback 0.01 s; when the difference is
\* in (0, 100000] the step uses the raw difference.
C10_ClampAsStated ==
  lastOp = "update" =>
    LET last == before.lastUpdateMicros
        now  == lastNow
    IN  /\ (now = last \/ Lt32(now, last)
              \/ (Lt32(last, now) /\ ~IntervalAccepted(Sub32(now, last))))
             => deltaTimeUsed = 10000 /\ IntegratedOver(10000)
        /\ (Lt32(last, now) /\ IntervalAccepted(Sub32(now, last)))
             => deltaTimeUsed = Val32(Sub32(now, last))

\* C10 (amended) -- the difference is taken modulo 2^32: when it is 0 or
\* exceeds 100000 the step uses the fallback 0.01 s, and when it lies in
\* (0, 100000] the step uses that difference, also when the counter wrapped
\* between the two reads.
C10_ClampModular ==
  lastOp = "update" =>
    IF IntervalAccepted(LastInterval)
      THEN deltaTimeUsed = Val32(LastInterval)
             /\ IntegratedOver(Val32(LastInterval))
      ELSE deltaTimeUsed = 10000 /\ IntegratedOver(10000)

\* an update across the counter's wrap, 100 us after the previous one, with
\* the gyro turning: the raw 100 us are integrated
C10_Witness ==
  /\ lastOp = "update"
  /\ Lt32(lastNow, before.lastUpdateMicros)
  /\ deltaTimeUsed = 100
  /\ imuProcessor.gyroscopeDegPerSec # 0
  /\ imuProcessor.gyroQuaternion # before.gyroQuaternion

----------------------------------------------------------------------------
\* Properties of the channels (Transport / Emitter)

\* positions of the loop task inside update() of channel c, from the call to
\* the return
CallPcs(c) ==
  IF c = "bt" THEN {"bt_take", "bt_1", "bt_2", "bt_3", "bt_give"}
              ELSE {"serial_take", "serial_3", "serial_give"}

\* ... of which those between xSemaphoreTake and xSemaphoreGive
ProducerIn(c) == ppc \in CallPcs(c) \ {"bt_take", "serial_take"}

\* the worker of c between its xSemaphoreTake and its xSemaphoreGive
WorkerIn(c) == wpc[c] \in {"tx", "drain", "give"} \cup ResetPcs

\* the transmissions on c of the snapshot passed to the k-th update
Sent(c, k) == {i \in 1..Len(wire[c]) : wire[c][i].n = k}

\* there was an update on c and the snapshot of the last one was transmitted
LatestSent(c) == updates[c] # <<>> /\ Sent(c, Len(updates[c])) # {}

\* C1: on a channel that stays active, with its worker and the loop running,
\* the snapshot of an update that no further update follows is eventually
\* transmitted, and no snapshot is ever transmitted a second time, however
\* many worker cycles elapse.
C1_DirtyEdgeDelivery ==
  \A c \in Channels :
    /\ [](\A k \in 1..Len(updates[c]) : Cardinality(Sent(c, k)) <= 1)
    /\ (<>[]active[c]) => [](updates[c] # <<>> => <>LatestSent(c))

\* one update, transmitted once, and the worker already in a later cycle
C1_Witness ==
  \E c \in Channels :
    /\ Len(updates[c]) = 1 /\ Len(wire[c]) = 1 /\ Sent(c, 1) = {1}
    /\ wpc[c] = "take" /\ ~dirty[c] /\ active[c]

\* C2: the transmissions never outnumber the completed updates, nothing is
\* transmitted before the first update, and the transmitted snapshots are in
\* order a subsequence of the snapshots passed to update, none twice.
C2_NoDuplicateTransmit ==
  \A c \in Channels :
    /\ Len(wire[c]) <= Len(updates[c])
    /\ \A i \in 1..Len(wire[c]) :
         /\ wire[c][i].n \in 1..Len(updates[c])
         /\ wire[c][i].rec = updates[c][wire[c][i].n]
         /\ \A j \in 1..Len(wire[c]) : i < j => wire[c][i].n < wire[c][j].n

\* two updates of which the worker transmitted only the second: the producer
\* was faster than the consumer
C2_Witness ==
  \E c \in Channels :
    /\ Len(updates[c]) = 2 /\ Len(wire[c]) = 1 /\ wire[c][1].n = 2
    /\ updates[c][1] # updates[c][2]

\* C3: the producer between take and give in update() and the worker between
\* its take and give are never inside together on one channel, and while the
\* worker is inside the snapshot is the one it found and dirty stays cleared.
C3_MutualExclusion ==
  \A c \in Channels :
    /\ ~(ProducerIn(c) /\ WorkerIn(c))
    /\ WorkerIn(c) => data[c] = held[c] /\ ~dirty[c]
    /\ ProducerIn(c) => dataLock[c] = "loop"

\* the worker is transmitting while the producer waits in update() for the
\* same channel's mutex
C3_Witness ==
  \E c \in Channels :
    /\ wpc[c] = "tx" /\ dataLock[c] = "worker"
    /\ ppc \in {"bt_take", "serial_take"} /\ ppc \in CallPcs(c)
    /\ Len(updates[c]) = 1

\* C4 (as claimed): the snapshot a worker transmits is the one written by the
\* last completed update on the channel, and its three accumulated angles
\* are those of one state of the integrator -- the one an integration step
\* or a reset left -- never a mixture.
C4_NoTornSnapshot ==
  \A c \in Channels :
    wpc[c] = "tx" =>
      /\ updates[c] # <<>>
      /\ data[c] = updates[c][Len(updates[c])]
      /\ AccTriple(data[c]) \in coherent

\* C5: a step of update() on a channel leaves both active flags, everything
\* transmitted, the other channel's snapshot, dirty flag and mutex, and the
\* processor as they were; when update() returns, the channel's mutex is
\* free and dirty is set on the snapshot just stored.
C5_UpdateFrame ==
  [][\A c \in Channels :
       (ppc \in CallPcs(c) /\ ppc' # ppc) =>
         /\ active' = active
         /\ wire' = wire
         /\ imuProcessor' = imuProcessor
         /\ \A o \in Channels \ {c} :
              data'[o] = data[o] /\ dirty'[o] = dirty[o] /\ dataLock'[o] = dataLock[o]
         /\ ppc' \notin CallPcs(c) =>
              /\ dataLock'[c] = "free"
              /\ dirty'[c]
              /\ data'[c] = updates'[c][Len(updates'[c])]
              /\ Len(updates'[c]) = Len(updates[c])]_vars

\* update() on the wireless channel has just returned: its mutex is free, its
\* snapshot stored and dirty, and nothing was transmitted by it
C5_Witness ==
  /\ ppc = "serial_take"
  /\ dirty["bt"] /\ dataLock["bt"] = "free"
  /\ Len(updates["bt"]) = 1 /\ data["bt"] = updates["bt"][1]
  /\ wire["bt"] = <<>>

\* C6 (as claimed): at no instant at which active is false is the worker
\* past the clearing of dirty and in transmit.
C6_NoWorkWhileInactive ==
  \A c \in Channels : wpc[c] = "tx" => active[c]

\* C6 (amended): a worker cycle that reads active = false does no work -- the
\* worker is between its take and its give, or about to take, only in a cycle
\* whose check read active = true.
C6_SkipsCycleReadInactive ==
  \A c \in Channels :
    (wpc[c] = "take" \/ WorkerIn(c)) => sawActive[c] = "yes"

\* the serial channel is inactive with a dirty snapshot pending, and the
\* worker's last check read it inactive and skipped the cycle
C6_Witness ==
  /\ ~active["serial"] /\ dirty["serial"]
  /\ sawActive["serial"] = "no" /\ wpc["serial"] = "check"

----------------------------------------------------------------------------
\* wrapAngle and the Euler conversion, one application per run

\* angles handed to wrapAngle: every eighth of a turn up to three turns
\* either way, and the neighbours of the two ends of the interval
WrapAngles ==
  {k * 45 * Deg : k \in -24..24}
    \cup {s * 180 * Deg + d : s \in {-3, -1, 1, 3}, d \in {-1, 1}}

\* angles of the integrator quaternion: every twelfth of a turn of its two
\* turns, and the neighbours of the half turn
WrapQuaternions ==
  {k * 30 * Deg : k \in 0..23}
    \cup {180 * Deg + d : d \in {-HalfUlp180 - 1, -1, 1, HalfUlp180, HalfUlp180 + 1}}

InitWrap ==
  /\ Booted
  /\ AuxIdleExcept("wrap")
  /\ \/ wrapKind = "angle" /\ wrapIn \in WrapAngles
     \/ wrapKind \in Axes /\ wrapIn \in WrapQuaternions
  /\ wrapOut = <<>>

\* wrapAngle(angle)
ApplyWrapAngle ==
  /\ wrapKind = "angle"
  /\ wrapOut = <<>>
  /\ wrapOut' = <<wrapAngle(wrapIn)>>
  /\ UNCHANGED <<imuProcessor, restVars, wrapKind, wrapIn, cmdVars, serVars>>

\* updateGyroIntegration, from FusionQuaternionToEuler on: the three
\* accumulated angles published for the quaternion
ApplyGyroEuler ==
  /\ wrapKind \in Axes
  /\ wrapOut = <<>>
  /\ LET e == GyroEuler(wrapIn, wrapKind)
     IN  wrapOut' = <<e.roll, e.pitch, e.yaw>>
  /\ UNCHANGED <<imuProcessor, restVars, wrapKind, wrapIn, cmdVars, serVars>>

NextWrap == ApplyWrapAngle \/ ApplyGyroEuler

SpecWrap == InitWrap /\ [][NextWrap]_vars

\* C11 (as claimed): every angle wrapAngle returns, and every accumulated
\* angle published for an integrator quaternion, is greater than -180 and at
\* most 180 degrees.
C11_WrapHalfOpen ==
  \A i \in 1..Len(wrapOut) : wrapOut[i] > -180 * Deg /\ wrapOut[i] <= 180 * Deg

----------------------------------------------------------------------------
\* Command dispatch: one write payload or one received line per run.
\* Characters are named: letters by themselves, "SP" "TAB" "CR" "LF" "VT"
\* "FF" for the six characters isspace() accepts.  The contents are free of
\* NUL bytes.

RESET_GYRO == <<"R", "E", "S", "E", "T", "_", "G", "Y", "R", "O">>

\* toupper
ToUpper(c) ==
  CASE c = "r" -> "R" [] c = "e" -> "E" [] c = "s" -> "S" [] c = "t" -> "T"
    [] c = "g" -> "G" [] c = "y" -> "Y" [] c = "o" -> "O" [] c = "x" -> "X"
    [] OTHER -> c

\* for (char &c : cmd) c = toupper(c) / String::toUpperCase
UpperCase(str) == [i \in 1..Len(str) |-> ToUpper(str[i])]

\* the isSpace lambda of BluetoothEmitter::onWrite
isSpace(c) == c \in {"CR", "LF", "TAB", "SP"}

\* isspace() of the C library, used by String::trim
isspace(c) == c \in {"SP", "TAB", "LF", "VT", "FF", "CR"}

\* while (start < end && space(value[start])) start++
RECURSIVE TrimStart(_, _, _, _)
TrimStart(str, start, end, ble) ==
  IF start < end /\ (IF ble THEN isSpace(str[start + 1]) ELSE isspace(str[start + 1]))
    THEN TrimStart(str, start + 1, end, ble)
    ELSE start

\* while (end > start && space(value[end - 1])) end--
RECURSIVE TrimEnd(_, _, _, _)
TrimEnd(str, start, end, ble) ==
  IF end > start /\ (IF ble THEN isSpace(str[end]) ELSE isspace(str[end]))
    THEN TrimEnd(str, start, end - 1, ble)
    ELSE end

\* value.substr(start, end - start) / String::trim
Trimmed(str, ble) ==
  LET start == TrimStart(str, 0, Len(str), ble)
      end   == TrimEnd(str, start, Len(str), ble)
  IN  SubSeq(str, start + 1, end)

\* BluetoothEmitter::onWrite: does the payload call resetGyroIntegration?
onWrite(value) == UpperCase(Trimmed(value, TRUE)) = RESET_GYRO

\* Transport::processCommand: does cmd call the reset handler?
processCommand(cmd) == cmd = RESET_GYRO

\* the serial paths on a terminator: line.trim(); line.toUpperCase();
\* processCommand(line) / if (line == "RESET_GYRO")
SerialLineDispatch(line) == processCommand(UpperCase(Trimmed(line, FALSE)))

\* words and paddings the contents are made of
CmdWords ==
  {RESET_GYRO,
   <<"r", "e", "s", "e", "t", "_", "g", "y", "r", "o">>,
   <<"R", "e", "s", "e", "t", "_", "G", "y", "r", "o">>,
   <<"R", "E", "S", "E", "T", "_", "G", "Y", "R">>,
   RESET_GYRO \o <<"X">>,
   <<"R", "E", "S", "E", "T", "SP", "G", "Y", "R", "O">>,
   <<"x">>,
   <<>>}

CmdPads == {<<>>, <<"SP">>, <<"TAB", "SP">>, <<"CR", "LF">>, <<"VT">>, <<"FF">>, <<"x">>}

\* a line holds no terminator: the reader ends the line there
IsLine(str) == \A i \in 1..Len(str) : str[i] \notin {"CR", "LF"}

\* the processor after one advance: half a turn and more about the run's axis
Turned == update(Constructed(U32(0, 500), ChannelJunk), LoopSample,
                 Add32(U32(0, 500), LoopPeriod), "y")

\* ... and the channels constructed around it
BootedTurned ==
  /\ axis = "y"
  /\ imuProcessor = Turned
  /\ before = Turned
  /\ lastNow = U32(0, 500)
  /\ pstep = 0
  /\ lastOp = "init"
  /\ prevOp = "init"
  /\ lastGyro = 0
  /\ deltaTimeUsed = 0
  /\ anomalous = [prev |-> FALSE, last |-> FALSE]
  /\ ChannelsConstructed(ChannelJunk)

InitCmd ==
  /\ BootedTurned
  /\ AuxIdleExcept("cmd")
  /\ cmdPath \in {"ble", "serial"}
  /\ \E pre \in CmdPads, w \in CmdWords, post \in CmdPads :
       /\ cmdIn = pre \o w \o post
       /\ cmdPath = "serial" => IsLine(cmdIn)
  /\ cmdCalls = 0
  /\ cmdDone = FALSE

\* the content handled on its path
Dispatch(hit) ==
  /\ ~cmdDone
  /\ cmdDone' = TRUE
  /\ IF hit
       THEN /\ imuProcessor' = resetGyroIntegration(imuProcessor)
            /\ cmdCalls' = cmdCalls + 1
       ELSE UNCHANGED <<imuProcessor, cmdCalls>>
  /\ UNCHANGED <<restVars, wrapVars, cmdPath, cmdIn, serVars>>

DispatchWrite == cmdPath = "ble" /\ Dispatch(onWrite(cmdIn))

DispatchLine == cmdPath = "serial" /\ Dispatch(SerialLineDispatch(cmdIn))

NextCmd == DispatchWrite \/ DispatchLine

SpecCmd == InitCmd /\ [][NextCmd]_vars

\* the content is the command: RESET_GYRO once the white space (isspace) at
\* both ends is removed and the letters are made upper case
IsResetCommand(str) == UpperCase(Trimmed(str, FALSE)) = RESET_GYRO

\* C12 (as claimed): on either path a content calls resetGyroIntegration
\* exactly once if it is the command, and otherwise changes nothing: no
\* call, the processor as it was, nothing transmitted.
C12_CommandDispatch ==
  cmdDone =>
    IF IsResetCommand(cmdIn)
      THEN cmdCalls = 1 /\ imuProcessor = resetGyroIntegration(before)
      ELSE cmdCalls = 0 /\ imuProcessor = before /\ \A c \in Channels : wire[c] = <<>>

----------------------------------------------------------------------------
\* The serial command reader inside SerialTransport::transmit /
\* SerialEmitter::send, byte by byte

\* lines the peer sends and bytes waiting unread, in one run
MaxLines == 2

MaxPending == 2

\* if (serialCmdBuffer.length() < 128)
SerialBufferLimit == 128

Terminators == {"LF", "CR"}

\* a reader that lets the buffer take one more byte at the limit
ReadChar_LimitIncluded(buf, c) ==
  IF c \in Terminators
    THEN [buffer |-> <<>>, reset |-> SerialLineDispatch(buf)]
    ELSE IF Len(buf) <= SerialBufferLimit
      THEN [buffer |-> Append(buf, c), reset |-> FALSE]
      ELSE [buffer |-> <<>>, reset |-> FALSE]

\* the body of the while loop for the byte c: the buffer afterwards and
\* whether the reset was called
ReadChar(buf, c) ==
  IF c \in Terminators
    THEN [buffer |-> <<>>, reset |-> SerialLineDispatch(buf)]
    ELSE IF Len(buf) < SerialBufferLimit
      THEN [buffer |-> Append(buf, c), reset |-> FALSE]
      ELSE [buffer |-> <<>>, reset |-> FALSE]

Pad(ch, n) == [i \in 1..n |-> ch]

\* the lines the peer may send: nothing, the command or its lower-case
\* form, after no padding, after padding that brings the line to 129 bytes
\* and after padding longer than the buffer
SerialLines ==
  {Pad(ch, n) \o w \o <<t>> :
     ch \in {"x", "SP"}, n \in {0, 119, 129}, w \in {RESET_GYRO, <<>>}, t \in {"LF"}}
    \cup {<<"r", "e", "s", "e", "t", "_", "g", "y", "r", "o", "CR">>}

InitSerial ==
  /\ BootedTurned
  /\ AuxIdleExcept("serial")
  /\ SerialIdle

\* the peer starts sending a line
PeerStartsLine ==
  /\ feed = <<>>
  /\ linesFed < MaxLines
  /\ feed' \in SerialLines
  /\ linesFed' = linesFed + 1
  /\ UNCHANGED <<imuProcessor, restVars, wrapVars, cmdVars, rxBytes, serialCmdBuffer,
                 inTransmit, prevLen, lastByte, lineBytes, split>>

\* the next byte of the line is received
ByteArrives ==
  /\ feed # <<>>
  /\ Len(rxBytes) < MaxPending
  /\ rxBytes' = Append(rxBytes, Head(feed))
  /\ feed' = Tail(feed)
  /\ UNCHANGED <<imuProcessor, restVars, wrapVars, cmdVars, linesFed, serialCmdBuffer,
                 inTransmit, prevLen, lastByte, lineBytes, split>>

\* the worker calls transmit(): the record is printed and flushed
TransmitBegin ==
  /\ ~inTransmit
  /\ inTransmit' = TRUE
  /\ UNCHANGED <<imuProcessor, restVars, wrapVars, cmdVars, feed, linesFed, rxBytes,
                 serialCmdBuffer, prevLen, lastByte, lineBytes, split>>

\* while (Serial.available() > 0): one byte read and handled
ReadByte ==
  /\ inTransmit
  /\ rxBytes # <<>>
  /\ LET r == ReadChar(serialCmdBuffer, Head(rxBytes))
     IN  /\ serialCmdBuffer' = r.buffer
         /\ IF r.reset
              THEN /\ imuProcessor' = resetGyroIntegration(imuProcessor)
                   /\ cmdCalls' = cmdCalls + 1
              ELSE UNCHANGED <<imuProcessor, cmdCalls>>
  /\ prevLen' = Len(serialCmdBuffer)
  /\ lastByte' = Head(rxBytes)
  /\ lineBytes' = IF Head(rxBytes) \in Terminators THEN <<>> ELSE Append(lineBytes, Head(rxBytes))
  /\ split' = IF lineBytes = <<>> THEN FALSE ELSE split
  /\ rxBytes' = Tail(rxBytes)
  /\ UNCHANGED <<restVars, wrapVars, cmdPath, cmdIn, cmdDone, feed, linesFed, inTransmit>>

\* a transmit() whose line buffer is a local of the call
TransmitReturn_LocalBuffer ==
  /\ inTransmit
  /\ rxBytes = <<>>
  /\ inTransmit' = FALSE
  /\ serialCmdBuffer' = <<>>
  /\ split' = (split \/ lineBytes # <<>>)
  /\ UNCHANGED <<imuProcessor, restVars, wrapVars, cmdVars, feed, linesFed, rxBytes,
                 prevLen, lastByte, lineBytes>>

\* Serial.available() == 0: transmit() returns; the static buffer stays
TransmitReturn ==
  /\ inTransmit
  /\ rxBytes = <<>>
  /\ inTransmit' = FALSE
  /\ split' = (split \/ lineBytes # <<>>)
  /\ UNCHANGED <<imuProcessor, restVars, wrapVars, cmdVars, feed, linesFed, rxBytes,
                 serialCmdBuffer, prevLen, lastByte, lineBytes>>

NextSerial ==
  PeerStartsLine \/ ByteArrives \/ TransmitBegin \/ ReadByte \/ TransmitReturn

SpecSerial == InitSerial /\ [][NextSerial]_vars

\* C13: the line buffer never holds more than 128 bytes, and a byte other
\* than a terminator read while it holds 128 leaves it empty.
C13_BufferBounded ==
  /\ Len(serialCmdBuffer) <= SerialBufferLimit
  /\ (prevLen = SerialBufferLimit /\ lastByte \notin Terminators) => serialCmdBuffer = <<>>

\* the buffer held 128 bytes, a 129th byte of padding was read, and the
\* buffer restarted empty
C13_Witness ==
  /\ prevLen = SerialBufferLimit
  /\ lastByte = "x"
  /\ serialCmdBuffer = <<>>

----------------------------------------------------------------------------
\* main.cpp: setup() and loop() of the single-task driver

MaxErrorLines == 3
MaxMainCycles == 3

\* status_t values imu.begin() can return (0 is IMU_SUCCESS)
BeginStatus == {0, 1, 2}

AfterBegin_Continues(status) == "init"

\* setup(): if (imu.begin() != 0) { while (true) { println; delay } }
AfterBegin(status) == IF status # 0 THEN "halt_print" ELSE "init"

InitMain ==
  /\ Booted
  /\ AuxIdleExcept("main")
  /\ MainIdle

\* setup(): Serial.begin, Wire.begin, imu.begin()
SetupBegin ==
  /\ mpc = "setup"
  /\ \E status \in BeginStatus :
       /\ imuStatus' = status
       /\ mpc' = AfterBegin(status)
  /\ UNCHANGED <<imuProcessor, driverFrame, errorLines,
                 fusionInitialised, bleStarted, connectedCount, mainCycles,
                 jsonRecords, blePackets>>

\* the failure loop: Serial.println of the error object
HaltPrint ==
  /\ mpc = "halt_print"
  /\ errorLines' = (IF errorLines < MaxErrorLines THEN errorLines + 1 ELSE errorLines)
  /\ mpc' = "halt_delay"
  /\ UNCHANGED <<imuProcessor, driverFrame, imuStatus,
                 fusionInitialised, bleStarted, connectedCount, mainCycles,
                 jsonRecords, blePackets>>

\* the failure loop: delay(1000), then round again
HaltDelay ==
  /\ mpc = "halt_delay"
  /\ mpc' = "halt_print"
  /\ UNCHANGED <<imuProcessor, driverFrame, imuStatus,
                 errorLines, fusionInitialised, bleStarted, connectedCount,
                 mainCycles, jsonRecords, blePackets>>

\* setup(): GPIO and LEDs, Fusion AHRS and offset, lastUpdateMicros = micros(),
\* g_gyroQuaternion = identity
SetupFusion ==
  /\ mpc = "init"
  /\ imuProcessor' = Constructed(U32(0, 500), ChannelJunk)
  /\ fusionInitialised' = TRUE
  /\ mpc' = "init_ble"
  /\ UNCHANGED <<driverFrame, imuStatus, errorLines,
                 bleStarted, connectedCount, mainCycles, jsonRecords, blePackets>>

\* setup(): initialiseBle(), and setup returns
SetupBle ==
  /\ mpc = "init_ble"
  /\ bleStarted' = TRUE
  /\ mpc' = "loop"
  /\ UNCHANGED <<imuProcessor, driverFrame, imuStatus,
                 errorLines, fusionInitialised, connectedCount, mainCycles,
                 jsonRecords, blePackets>>

\* loop(): LEDs, the serial reader (a RESET_GYRO line arrived or not), the
\* sensor sample, the fusion update and the gyro integration
MainSample ==
  /\ mpc = "loop"
  /\ mainCycles < MaxMainCycles
  /\ \E reset \in BOOLEAN :
       LET p   == IF reset THEN resetGyroIntegration(imuProcessor) ELSE imuProcessor
           now == Add32(p.lastUpdateMicros, LoopPeriod)
       IN  imuProcessor' = update(p, LoopSample, now, axis)
  /\ mainCycles' = mainCycles + 1
  /\ mpc' = "emit_json"
  /\ UNCHANGED <<driverFrame, imuStatus, errorLines,
                 fusionInitialised, bleStarted, connectedCount, jsonRecords,
                 blePackets>>

\* loop(): if (!(g_bleServer && getConnectedCount() > 0)) printSensorJson(...)
MainEmitJson ==
  /\ mpc = "emit_json"
  /\ jsonRecords' = (IF ~(bleStarted /\ connectedCount > 0)
                       THEN jsonRecords + 1 ELSE jsonRecords)
  /\ mpc' = "emit_ble"
  /\ UNCHANGED <<imuProcessor, driverFrame, imuStatus,
                 errorLines, fusionInitialised, bleStarted, connectedCount,
                 mainCycles, blePackets>>

\* loop(): if (g_bleServer && getConnectedCount() > 0) sendBLEPacket(...) else
\* the blue LED blinks; loop returns
MainEmitBle ==
  /\ mpc = "emit_ble"
  /\ blePackets' = (IF bleStarted /\ connectedCount > 0
                      THEN blePackets + 1 ELSE blePackets)
  /\ mpc' = "loop"
  /\ UNCHANGED <<imuProcessor, driverFrame, imuStatus,
                 errorLines, fusionInitialised, bleStarted, connectedCount,
                 mainCycles, jsonRecords>>

\* a central connects to / disconnects from the GATT server
PeerConnects ==
  /\ bleStarted
  /\ connectedCount = 0
  /\ connectedCount' = 1
  /\ UNCHANGED <<imuProcessor, driverFrame, mpc, imuStatus,
                 errorLines, fusionInitialised, bleStarted, mainCycles, jsonRecords,
                 blePackets>>

PeerDisconnects ==
  /\ connectedCount = 1
  /\ connectedCount' = 0
  /\ UNCHANGED <<imuProcessor, driverFrame, mpc, imuStatus,
                 errorLines, fusionInitialised, bleStarted, mainCycles, jsonRecords,
                 blePackets>>

NextMain ==
  \/ SetupBegin
  \/ HaltPrint
  \/ HaltDelay
  \/ SetupFusion
  \/ SetupBle
  \/ MainSample
  \/ MainEmitJson
  \/ MainEmitBle
  \/ PeerConnects
  \/ PeerDisconnects

SpecMain == InitMain /\ [][NextMain]_vars

\* C14: once imu.begin() has reported failure the task is in the failure loop
\* (printing the error line, delaying, printing again) and stays there: the
\* fusion initialisation and the BLE start-up have not run, no sampling cycle
\* has begun and no telemetry record has been emitted on either path.
C14_SensorFailureFatal ==
  imuStatus > 0 =>
    /\ mpc \in {"halt_print", "halt_delay"}
    /\ ~fusionInitialised
    /\ ~bleStarted
    /\ mainCycles = 0
    /\ jsonRecords = 0
    /\ blePackets = 0

C14_Witness ==
  /\ imuStatus > 0
  /\ errorLines = MaxErrorLines
  /\ mpc = "halt_delay"

----------------------------------------------------------------------------
\* Who writes the processor's integration state

\* the integration state of the processor
IntegrationState(p) ==
  <<p.gyroQuaternion, p.accumulatedGyroX, p.accumulatedGyroY, p.accumulatedGyroZ,
    p.g_ahrs, p.offset, p.lastUpdateMicros>>

\* C15: the integration state (gyro-integrator quaternion, accumulated angles,
\* fusion state, lastUpdateMicros) has exactly one writer: every step that
\* changes it is a step of the producer (the loop task); no step of a channel
\* worker and no step of the BLE write callback changes it.
C15_SingleWriter ==
  [][IntegrationState(imuProcessor') # IntegrationState(imuProcessor) =>
       /\ ppc' # ppc
       /\ wpc' = wpc
       /\ blepc' = blepc]_vars

----------------------------------------------------------------------------
\* Independence of the channels

\* this step is a step of update() on channel c
UpdateStep(c) == ppc \in CallPcs(c) /\ ppc' # ppc

\* this step is a step of the worker of channel c
WorkerStep(c) == wpc'[c] # wpc[c] \/ sawActive'[c] # sawActive[c]

\* the producer waits at the xSemaphoreTake of update() on channel c
AtTake(c) == ppc = (IF c = "bt" THEN "bt_take" ELSE "serial_take")

\* that xSemaphoreTake can return
TakeEnabled(c) ==
  IF c = "bt" THEN ENABLED UpdateTake("bt", "bt_take", "bt_1")
              ELSE ENABLED UpdateTake("serial", "serial_take", "serial_3")

\* C16: each channel has a mutex of its own: a step of update() on a channel
\* and a step of a channel's worker (its cycle, its transmit) leave every
\* other channel's snapshot, dirty flag and active flag as they were, and an
\* update() waiting for its channel's mutex can go on whenever that mutex is
\* free, whoever holds the other channel's.
C16_ChannelIndependence ==
  /\ [][\A c \in Channels :
          (UpdateStep(c) \/ WorkerStep(c)) =>
            \A o \in Channels \ {c} :
              data'[o] = data[o] /\ dirty'[o] = dirty[o] /\ active'[o] = active[o]]_vars
  /\ [](\A c \in Channels : (AtTake(c) /\ dataLock[c] = "free") => TakeEnabled(c))

\* update() on the serial channel holds the serial mutex while the worker of
\* the BLE channel transmits under its own
C16_Witness ==
  /\ ppc = "serial_3"
  /\ dataLock["serial"] = "loop"
  /\ wpc["bt"] = "tx"
  /\ dataLock["bt"] = "worker"

----------------------------------------------------------------------------
\* One channel cell (mutex + dirty flag + snapshot) beside a queue of depth 1
\* that overwrites when full, both fed the same calls

MaxPuts == 4

\* the snapshots passed to update()
Snapshots == {JunkData(k * Deg) : k \in 1..2}

\* Transport::setActive
CellSetActive(t, a) == [t EXCEPT !.active = a]

\* Transport::update: take the mutex, store, dirty = true, give
CellUpdate(t, d) ==
  LET taken  == [t EXCEPT !.dataLock = "loop"]
      stored == [taken EXCEPT !.data = d, !.dirty = TRUE]
  IN  [stored EXCEPT !.dataLock = "free"]

\* a worker cycle that transmits and leaves dirty set
CellTask_KeepsDirty(t) ==
  IF ~t.active THEN t
  ELSE IF t.dirty THEN [t EXCEPT !.wire = Append(@, t.data)] ELSE t

\* Transport::task, one round of the loop: skip while inactive; take the
\* mutex; if (dirty) { dirty = false; transmit(); }; give
CellTask(t) ==
  IF ~t.active
    THEN t
    ELSE LET taken == [t EXCEPT !.dataLock = "worker"]
             done  == IF taken.dirty
                        THEN [taken EXCEPT !.dirty = FALSE, !.wire = Append(@, taken.data)]
                        ELSE taken
         IN  [done EXCEPT !.dataLock = "free"]

\* the queue: a put replaces what is waiting
QueuePut(q, x) == <<x>>

\* the queue's consumer, one round: skip while inactive; take what is waiting,
\* if anything, and transmit it
QueueTake(q, a) == IF a /\ q # <<>> THEN <<>> ELSE q

QueueTransmit(q, a, sent) == IF a /\ q # <<>> THEN Append(sent, q[1]) ELSE sent

InitQueue ==
  /\ Booted
  /\ AuxIdleExcept("queue")
  /\ QueueIdle

\* begin() / setActive(a) on both
BothSetActive ==
  /\ \E a \in BOOLEAN :
       /\ a # cell.active
       /\ cell' = CellSetActive(cell, a)
       /\ queueActive' = a
  /\ UNCHANGED <<imuProcessor, frameVars, wrapVars, cmdVars, serVars, mainVars, raceVars, paceVars,
                 queue, queueSent, puts>>

\* update(x) on the cell, put(x) on the queue
BothUpdate ==
  /\ puts < MaxPuts
  /\ \E x \in Snapshots :
       /\ cell' = CellUpdate(cell, x)
       /\ queue' = QueuePut(queue, x)
  /\ puts' = puts + 1
  /\ UNCHANGED <<imuProcessor, frameVars, wrapVars, cmdVars, serVars, mainVars, raceVars, paceVars,
                 queueActive, queueSent>>

\* a worker cycle on the cell, a consumer round on the queue
BothCycle ==
  /\ cell' = CellTask(cell)
  /\ queue' = QueueTake(queue, queueActive)
  /\ queueSent' = QueueTransmit(queue, queueActive, queueSent)
  /\ UNCHANGED <<imuProcessor, frameVars, wrapVars, cmdVars, serVars, mainVars, raceVars, paceVars,
                 queueActive, puts>>

NextQueue == BothSetActive \/ BothUpdate \/ BothCycle

SpecQueue == InitQueue /\ [][NextQueue]_vars

\* C17: fed the same update calls, activations and worker cycles in the same
\* order, the mutex-and-dirty-flag cell and the depth-1 overwriting queue
\* have transmitted the same sequence of snapshots; the cell is dirty exactly
\* when the queue holds a snapshot, and then it is the same snapshot, and the
\* cell's mutex is free between calls.
C17_QueueEquivalent ==
  /\ cell.wire = queueSent
  /\ cell.dirty <=> queue # <<>>
  /\ cell.dirty => queue = <<cell.data>>
  /\ cell.active = queueActive
  /\ cell.dataLock = "free"

\* a snapshot was overwritten before any cycle took it, two others went out
C17_Witness ==
  /\ puts = 3
  /\ Len(cell.wire) = 2
  /\ cell.wire[1] # cell.wire[2]
  /\ ~cell.dirty

----------------------------------------------------------------------------
\* A reset that arrives while update() is integrating

\* no task is inside resetGyroIntegration
ResetReturned ==
  /\ blepc \notin ResetPcs
  /\ \A c \in Channels : wpc[c] \notin ResetPcs

\* C19: a reset is never lost: when resetGyroIntegration was called while
\* update() was integrating, then once the reset has returned and that
\* update() has finished its writes (and no later update() has begun), the
\* integrator quaternion is the identity and the accumulated angles are zero.
C19_ResetNeverLost ==
  (resetSeen = "during" /\ ResetReturned /\ ppc \notin AdvancePcs) =>
    /\ imuProcessor.gyroQuaternion = FUSION_IDENTITY_QUATERNION
    /\ imuProcessor.accumulatedGyroX = 0
    /\ imuProcessor.accumulatedGyroY = 0
    /\ imuProcessor.accumulatedGyroZ = 0

----------------------------------------------------------------------------
\* Deadlock freedom and progress

\* the worker of c is inside a cycle: past the test of active, not yet asleep
InCycle(c) == wpc[c] \notin {"off", "check"}

\* C20: the mutex of a channel is held by the worker only between its take and
\* its give -- never while it sleeps -- and by the loop task only inside
\* update(); with the tasks scheduled, every update() the loop task has
\* entered returns and every worker cycle begun completes, also when the
\* serial worker runs a reset from inside transmit under the mutex.
C20_DeadlockFreedom ==
  /\ [](\A c \in Channels :
          /\ dataLock[c] = "worker" => WorkerIn(c)
          /\ dataLock[c] = "loop" => ProducerIn(c))
  /\ \A c \in Channels : (ppc \in CallPcs(c)) ~> (ppc \notin CallPcs(c))
  /\ \A c \in Channels : InCycle(c) ~> (wpc[c] = "check")

\* update() on the serial channel waits for the mutex while the serial worker,
\* holding it, is about to run the reset a received line asked for
C20_Witness ==
  /\ ppc = "serial_take"
  /\ wpc["serial"] = "r_q"
  /\ dataLock["serial"] = "worker"

----------------------------------------------------------------------------
\* The two telemetry paths of the single-loop driver

\* C21: every sampling cycle of loop() emits its snapshot on exactly one
\* path -- the JSON line or the BLE packet, never both and never neither --
\* so whenever a cycle has ended the records emitted on the two paths together
\* are as many as the cycles run, also when the central connects or
\* disconnects during the cycle.
C21_ExactlyOnePath ==
  mpc = "loop" => jsonRecords + blePackets = mainCycles

----------------------------------------------------------------------------
\* Suspension by setActive(false)

\* C22: the worker tests active once per cycle, so after setActive(false) has
\* returned it makes at most one further transmit -- that of a cycle already
\* past the test -- and none after it until setActive(true) is called.
C22_BoundedSuspension ==
  \A c \in Channels : ~active[c] => lateTx[c] <= 1

\* the serial channel is switched off, its worker has made the one late
\* transmit, came back to the test and read inactive, with a snapshot waiting
C22_Witness ==
  /\ ~active["serial"]
  /\ lateTx["serial"] = 1
  /\ wpc["serial"] = "check"
  /\ sawActive["serial"] = "no"
  /\ dirty["serial"]

----------------------------------------------------------------------------
\* Updates made while a channel is inactive

\* the position of update() on channel c at which the snapshot is stored
\* and dirty set
StorePc(c) == IF c = "bt" THEN "bt_1" ELSE "serial_3"

\* this step stores the snapshot of update() on channel c
StoreStep(c) == ppc = StorePc(c) /\ ppc' # ppc

\* this step transmits on channel c
TransmitStep(c) == Len(wire'[c]) = Len(wire[c]) + 1

\* C23: update() stores the snapshot and sets dirty whether the channel is
\* active or not; nothing is queued: a transmit sends the snapshot of the
\* most recent update, which was not sent before, and leaves nothing
\* waiting; and a snapshot waiting on an active channel is eventually taken
\* by the worker -- so the updates made while the channel was inactive lead
\* to one transmit, of the last of them, once it is active again.
C23_InactiveBacklog ==
  /\ [][\A c \in Channels :
          /\ StoreStep(c) =>
               /\ dirty'[c]
               /\ Len(updates'[c]) = Len(updates[c]) + 1
               /\ data'[c] = updates'[c][Len(updates'[c])]
          /\ TransmitStep(c) =>
               /\ wire'[c][Len(wire'[c])].n = Len(updates[c])
               /\ wire'[c][Len(wire'[c])].rec = updates[c][Len(updates[c])]
               /\ Sent(c, Len(updates[c])) = {}
               /\ ~dirty'[c]]_vars
  /\ \A c \in Channels : (dirty[c] /\ active[c]) ~> (~dirty[c] \/ ~active[c])

\* two updates are waiting as one snapshot on the switched-off serial
\* channel, the second stored while it was inactive, nothing transmitted yet
C23_Witness ==
  /\ ~active["serial"]
  /\ dirty["serial"]
  /\ Len(updates["serial"]) = 2
  /\ wire["serial"] = <<>>
  /\ data["serial"] = updates["serial"][2]

----------------------------------------------------------------------------
\* Where the inbound serial bytes are consumed

\* this step takes a received line out of the serial receive buffer
ConsumeStep == rx' < rx

\* C24 (as claimed): a received line is consumed only inside the serial
\* channel's transmit, and never while the serial channel is inactive.
C24_NoDispatchWhileInactive ==
  [][ConsumeStep => (wpc["serial"] = "drain" /\ active["serial"])]_vars

\* C24 (amended): a received line is consumed only by the reader at the end
\* of the serial channel's transmit, under the channel's mutex; the reader
\* is entered only straight after the record was sent, and a record is sent
\* only in a cycle whose test read active as true and which found dirty set
\* (the channel may have been switched off since that test); a line pending
\* when a record is sent is consumed by that transmit's reader and the reset
\* dispatched before the worker gives the mutex back.
C24_DispatchOnlyInTransmit ==
  [][/\ ConsumeStep =>
          /\ wpc["serial"] = "drain"
          /\ dataLock["serial"] = "worker"
          /\ rx' = rx - 1
          /\ wpc'["serial"] = "r_q"
     /\ (wpc'["serial"] = "drain" /\ wpc["serial"] \notin ResetPcs \cup {"drain"}) =>
          /\ wpc["serial"] = "tx"
          /\ TransmitStep("serial")
     /\ (wpc'["serial"] = "tx" /\ wpc["serial"] # "tx") =>
          /\ dirty["serial"]
          /\ sawActive["serial"] = "yes"
     /\ (wpc["serial"] = "drain" /\ wpc'["serial"] # "drain" /\ rx > 0) => ConsumeStep
     /\ (wpc["serial"] = "r_q" /\ wpc'["serial"] # "r_q") =>
          /\ imuProcessor' = resetGyroIntegration(imuProcessor)
          /\ dataLock'["serial"] = "worker"]_vars

\* a line was consumed and its reset is about to run in a transmit that
\* finishes after the serial channel was switched off
C24_Witness ==
  /\ wpc["serial"] = "r_q"
  /\ ~active["serial"]
  /\ sawActive["serial"] = "yes"
  /\ dataLock["serial"] = "worker"

----------------------------------------------------------------------------
\* Line assembly in the serial reader

\* what a line read in one call leaves in the buffer: the buffer restarts
\* empty at every 129th byte, so the bytes after the last restart are kept
Kept(bytes) ==
  LET n == Len(bytes)
  IN  SubSeq(bytes, n - (n % (SerialBufferLimit + 1)) + 1, n)

\* one byte leaves the receive queue
ReadStep == Len(rxBytes') < Len(rxBytes)

\* transmit() / send() returns
ReturnStep == inTransmit /\ ~inTransmit'

\* C25: bytes are read only inside transmit(), one at a time, and
\* transmit() returns only when none is pending; a byte other than a
\* terminator leaves in the buffer what the line so far leaves when read in
\* one call, however the line was split over calls; a terminator evaluates
\* the line once, on what the whole line left, and empties the buffer; any
\* other step keeps the partial line.
C25_LineAssembly ==
  [][/\ ReadStep =>
          /\ inTransmit /\ inTransmit'
          /\ rxBytes' = Tail(rxBytes)
          /\ serialCmdBuffer = Kept(lineBytes)
          /\ IF Head(rxBytes) \in Terminators
               THEN /\ serialCmdBuffer' = <<>>
                    /\ cmdCalls' - cmdCalls =
                         (IF SerialLineDispatch(Kept(lineBytes)) THEN 1 ELSE 0)
               ELSE /\ serialCmdBuffer' = Kept(Append(lineBytes, Head(rxBytes)))
                    /\ cmdCalls' = cmdCalls
     /\ ReturnStep => rxBytes = <<>>
     /\ ~ReadStep => (serialCmdBuffer' = serialCmdBuffer /\ cmdCalls' = cmdCalls)]_vars

\* the command arrived split over several calls of transmit() and its
\* terminator has just been read: the reset was called once
C25_Witness ==
  /\ split
  /\ lastByte = "LF"
  /\ prevLen = Len(RESET_GYRO)
  /\ lineBytes = <<>>
  /\ cmdCalls = 1
  /\ imuProcessor.gyroQuaternion = FUSION_IDENTITY_QUATERNION

\* C26: a reset is never called at the end of a line of more than 128
\* bytes.
C26_OversizedNeverDispatches ==
  [][cmdCalls' > cmdCalls => Len(lineBytes) <= SerialBufferLimit]_vars

----------------------------------------------------------------------------
\* The delta-time guard from one update to the next (checked under SpecProc)

\* C27: every update stores the time it read in lastUpdateMicros, also when
\* the fallback is substituted, and the previous value was the reference of
\* its interval; the fallback is used only when the update's own interval
\* is rejected, so an update with an interval in (0, 100000] us that follows
\* a rejected one integrates over its raw interval.
C27_GuardSelfHealing ==
  lastOp = "update" =>
    /\ imuProcessor.lastUpdateMicros = lastNow
    /\ anomalous.last = ~IntervalAccepted(LastInterval)
    /\ deltaTimeUsed # FallbackDelta => ~anomalous.last
    /\ (anomalous.prev /\ ~anomalous.last) =>
         /\ deltaTimeUsed = Val32(LastInterval)
         /\ IntegratedOver(Val32(LastInterval))

\* an update whose interval was rejected (the fallback was used), followed
\* by an update 1 us later that integrated over the raw microsecond
C27_Witness ==
  /\ lastOp = "update"
  /\ prevOp = "update"
  /\ anomalous = [prev |-> TRUE, last |-> FALSE]
  /\ deltaTimeUsed = 1
  /\ imuProcessor.gyroscopeDegPerSec # 0
  /\ imuProcessor.gyroQuaternion # before.gyroQuaternion

----------------------------------------------------------------------------
\* Transport::task / Emitter::task: the pacing of one worker's loop

MaxPaceCycles == 2

\* the period the loop aims at, the least delay and the delay of an
\* inactive cycle (ms)
TargetPeriodMs == 10

MinDelayMs == 1

InactiveDelayMs == 100

\* the tick of the Arduino-ESP32 FreeRTOS build is one millisecond
portTICK_PERIOD_MS == 1

\* millis() when the worker starts: at boot, and within a turn of the
\* counter of its wrap
BootMillis == {U32(0, 0), U32(Half - 1, Half - 4), U32(Half - 2, 17)}

\* what the take, the transmit and the give of one cycle can take (ms)
ProcessingMs == {0, 1, 5, 9, 10, 11, 100, 70000}

\* a uint32_t difference stored in an int32_t
ToInt32(d) ==
  IF d.hi >= Half \div 2 THEN (d.hi - Half) * Half + d.lo ELSE d.hi * Half + d.lo

max(a, b) == IF a >= b THEN a ELSE b

\* int32_t elapsed = millis() - start
Elapsed32(now, st) == ToInt32(Sub32(now, st))

\* a delay without the floor
RequiredDelay_NoFloor(e) == TargetPeriodMs - e

\* int32_t requiredDelay = max(1, 10 - elapsed)
RequiredDelay(e) == max(MinDelayMs, TargetPeriodMs - e)

paceFrame == <<imuProcessor, frameVars, wrapVars, cmdVars, serVars, mainVars, queueVars,
               raceVars>>

InitPace ==
  /\ Booted
  /\ AuxIdleExcept("pace")
  /\ pacePc = "test"
  /\ paceActive = FALSE
  /\ nowMillis \in BootMillis
  /\ startMillis = U32(0, 0)
  /\ workMs = 0
  /\ elapsed = 0
  /\ requiredDelay = 0
  /\ sleptMs = 0
  /\ paceCycles = 0

\* if (!active) { vTaskDelay(100 / portTICK_PERIOD_MS); continue; }
PaceInactive ==
  /\ pacePc = "test"
  /\ paceActive' = FALSE
  /\ sleptMs' = (InactiveDelayMs \div portTICK_PERIOD_MS) * portTICK_PERIOD_MS
  /\ pacePc' = "slept"
  /\ UNCHANGED <<paceFrame, nowMillis, startMillis, workMs, elapsed, requiredDelay, paceCycles>>

\* uint32_t start = millis()
PaceStart ==
  /\ pacePc = "test"
  /\ paceActive' = TRUE
  /\ startMillis' = nowMillis
  /\ pacePc' = "work"
  /\ UNCHANGED <<paceFrame, nowMillis, workMs, elapsed, requiredDelay, sleptMs, paceCycles>>

\* take, transmit if dirty, give; then elapsed and requiredDelay are
\* computed from millis()
PaceWork ==
  /\ pacePc = "work"
  /\ \E w \in ProcessingMs :
       /\ workMs' = w
       /\ nowMillis' = Add32(nowMillis, w)
       /\ elapsed' = Elapsed32(Add32(nowMillis, w), startMillis)
       /\ requiredDelay' = RequiredDelay(Elapsed32(Add32(nowMillis, w), startMillis))
  /\ pacePc' = "delay"
  /\ UNCHANGED <<paceFrame, paceActive, startMillis, sleptMs, paceCycles>>

\* vTaskDelay(requiredDelay / portTICK_PERIOD_MS)
PaceDelay ==
  /\ pacePc = "delay"
  /\ sleptMs' = (requiredDelay \div portTICK_PERIOD_MS) * portTICK_PERIOD_MS
  /\ pacePc' = "slept"
  /\ UNCHANGED <<paceFrame, paceActive, nowMillis, startMillis, workMs, elapsed, requiredDelay,
                 paceCycles>>

\* the delay is over: while (true)
PaceWakes ==
  /\ pacePc = "slept"
  /\ paceCycles < MaxPaceCycles
  /\ nowMillis' = Add32(nowMillis, sleptMs)
  /\ paceCycles' = paceCycles + 1
  /\ pacePc' = "test"
  /\ UNCHANGED <<paceFrame, paceActive, startMillis, workMs, elapsed, requiredDelay, sleptMs>>

NextPace == PaceInactive \/ PaceStart \/ PaceWork \/ PaceDelay \/ PaceWakes

SpecPace == InitPace /\ [][NextPace]_vars

\* C28: an active cycle sleeps 10 ms less what its processing took when
\* that was 0..9 ms and 1 ms otherwise, so between 1 and 10 ms, also when
\* millis() wrapped during the cycle; an inactive cycle sleeps 100 ms.
C28_WorkerPacing ==
  pacePc = "slept" =>
    IF paceActive
      THEN /\ elapsed = workMs
           /\ sleptMs = (IF workMs \in 0..9 THEN 10 - workMs ELSE 1)
           /\ sleptMs \in 1..10
      ELSE sleptMs = 100

\* a cycle whose 5 ms of processing crossed the wrap of millis() and that
\* slept the remaining 5 ms
C28_Witness ==
  /\ pacePc = "slept"
  /\ paceActive
  /\ Lt32(nowMillis, startMillis)
  /\ workMs = 5
  /\ sleptMs = 5

============================================================================
